---------------------------- MODULE Spec2Model ----------------------------
(***************************************************************************)
(* A model of the GraphQL mirror of src/graphql/mirror.js: the Mirror      *)
(* constructor, Mirror._initialize, _buildSchemaInfo, _inTransaction and   *)
(* isSqlSafe, together with the part of the SQLite connection they use     *)
(* (tables, rows, indices, the transaction state).                         *)
(*                                                                         *)
(* A name (type name, field name, table name, column name) is a sequence   *)
(* of one-character strings, so that the character tests of the code are   *)
(* computed and not assumed.  The fixed words of the SQL text ("meta",     *)
(* "primitives_", ...) are kept as one element each.                       *)
(***************************************************************************)
EXTENDS Integers, Sequences, FiniteSets, TLC

VARIABLES
    committed,      \* the database as any other reader sees it (durable state)
    working,        \* the database as this connection sees it (pending changes included)
    inTransaction,  \* db.inTransaction
    pc,             \* position of the running call
    call,           \* which entry point is running: "none", "mirror", "txn", "info"
    schema,         \* this._schema of the Mirror under construction
    schemaInfo,     \* this._schemaInfo
    idx,            \* loop index inside the callback (statement or type number)
    fnLog,          \* what the callback of _inTransaction has done so far
    issued,         \* transaction statements issued by _inTransaction itself
    outcome,        \* how the finished call ended: returned value or thrown error
    pre             \* the connection's state when the call was made

vars == <<committed, working, inTransaction, pc, call, schema, schemaInfo, idx, fnLog, issued, outcome, pre>>

----------------------------------------------------------------------------
(* Bounds of the model.                                                    *)

\* at most this many types in a schema handed to the Mirror constructor
MaxTypes == 2

\* at most this many fields in an object type handed to _buildSchemaInfo alone
MaxFields == 3

\* at most this many statements issued by a callback handed to _inTransaction
MaxFnSteps == 4

\* at most this many rows written by the owner of the connection outside the calls
MaxRows == 1

\* at most this many characters in a name handed to isSqlSafe alone
MaxTokenLen == 2

\* at most this many rows in the table connections
MaxConnections == 2

\* at most this many characters in a string handed to identityNameFromString
MaxNameLen == 2

----------------------------------------------------------------------------
(* Characters and names.                                                   *)

\* the characters of the model's names, in the order of their character codes
AsciiOrder == <<"-", "0", "7", ";", "A", "B", "C", "D", "I", "U", "_", "a", "c", "d", "i", "n", "t">>

CharCode(c) == CHOOSE i \in 1..Len(AsciiOrder) : AsciiOrder[i] = c

\* the character class [A-Za-z0-9_] of the regular expression in isSqlSafe
SqlSafeChars == {"A", "B", "C", "D", "E", "F", "G", "H", "I", "J", "K", "L", "M",
                 "N", "O", "P", "Q", "R", "S", "T", "U", "V", "W", "X", "Y", "Z",
                 "a", "b", "c", "d", "e", "f", "g", "h", "i", "j", "k", "l", "m",
                 "n", "o", "p", "q", "r", "s", "t", "u", "v", "w", "x", "y", "z",
                 "0", "1", "2", "3", "4", "5", "6", "7", "8", "9", "_"}

\* the character class with the hyphen let in: /[^A-Za-z0-9_-]/
isSqlSafeHyphen(token) == ~ \E i \in 1..Len(token) : token[i] \notin SqlSafeChars \cup {"-"}

\* the expression anchored at the start, /^[^A-Za-z0-9_]/: only the first
\* character is looked at
isSqlSafeFirstChar(token) == Len(token) = 0 \/ token[1] \in SqlSafeChars

\* !token.match(/[^A-Za-z0-9_]/): no character of the token is outside the class
isSqlSafe(token) == ~ \E i \in 1..Len(token) : token[i] \notin SqlSafeChars

\* `"primitives_${typename}"`
primitivesTableName(typename) == <<"primitives_">> \o typename

\* string comparison of JavaScript (by character code, a proper prefix first)
NameLess(a, b) ==
    \E k \in 1..(Len(a) + 1) :
        /\ \A j \in 1..(k - 1) : j <= Len(b) /\ a[j] = b[j]
        /\ k <= Len(b)
        /\ (k = Len(a) + 1 \/ CharCode(a[k]) < CharCode(b[k]))

----------------------------------------------------------------------------
(* Schemas.  A JavaScript object is the sequence of its properties in      *)
(* property order, each [name, value]; Object.keys reads the names in that *)
(* order.                                                                  *)

ObjectKeys(obj) == [i \in 1..Len(obj) |-> obj[i].name]

Prop(n, v) == [name |-> n, value |-> v]

Digits == <<"0", "1", "2", "3", "4", "5", "6", "7", "8", "9">>
DigitValue(c) == (CHOOSE i \in 1..Len(Digits) : Digits[i] = c) - 1

RECURSIVE NumericValue(_)
NumericValue(n) ==
    IF n = <<>> THEN 0 ELSE 10 * NumericValue(SubSeq(n, 1, Len(n) - 1)) + DigitValue(n[Len(n)])

\* a property name that is an array index: the decimal form, without leading
\* zero, of an integer below 2^32 - 1; the names of the model have fewer than
\* ten digits, and all of those are below
IsArrayIndex(n) ==
    /\ Len(n) \in 1..9
    /\ \A i \in 1..Len(n) : \E d \in 1..Len(Digits) : Digits[d] = n[i]
    /\ (n[1] = "0" => Len(n) = 1)

\* obj[n] = v for a key that obj does not have: the array indices of an object
\* come first in its property order, in ascending order, and the other keys
\* follow in the order in which they were added
DefineProperty(obj, n, v) ==
    IF IsArrayIndex(n)
    THEN LET before == SelectSeq(obj, LAMBDA q : IsArrayIndex(q.name) /\ NumericValue(q.name) < NumericValue(n))
             after == SelectSeq(obj, LAMBDA q : ~(IsArrayIndex(q.name) /\ NumericValue(q.name) < NumericValue(n)))
         IN before \o <<Prop(n, v)>> \o after
    ELSE Append(obj, Prop(n, v))

IdField == [type |-> "ID"]
PrimitiveField == [type |-> "PRIMITIVE"]
NodeField(t) == [type |-> "NODE", elementType |-> t]
ConnectionField(t) == [type |-> "CONNECTION", elementType |-> t]

ObjectType(fields) == [type |-> "OBJECT", fields |-> fields]
UnionType(clauses) == [type |-> "UNION", clauses |-> clauses]


\* the names of the model
NameA == <<"A">>
NameB == <<"B">>
NameC == <<"C">>
NameD == <<"D">>
Name7 == <<"7">>
NameU == <<"U">>
NameEmpty == <<>>
NameUnsafeType == <<"A", ";">>
NameId == <<"i", "d">>
NameT == <<"t">>
NameN == <<"n">>
NameCn == <<"c">>
NameUnsafeField == <<"t", "-">>

\* the types a schema handed to the Mirror constructor is made of
TypeEntries ==
    { Prop(NameA, ObjectType(<<Prop(NameId, IdField), Prop(NameT, PrimitiveField)>>)),
      Prop(NameB, ObjectType(<<Prop(NameUnsafeField, NodeField(NameA)), Prop(NameId, IdField),
                               Prop(NameCn, ConnectionField(NameA)), Prop(NameT, PrimitiveField)>>)),
      Prop(NameC, ObjectType(<<Prop(NameId, IdField), Prop(NameUnsafeField, PrimitiveField)>>)),
      Prop(NameUnsafeType, ObjectType(<<Prop(NameId, IdField)>>)),
      Prop(NameEmpty, ObjectType(<<Prop(NameId, IdField)>>)),
      Prop(NameU, UnionType(<<Prop(NameA, TRUE), Prop(NameB, TRUE)>>)),
      Prop(NameD, ObjectType(<<Prop(NameId, IdField), Prop(NameT, PrimitiveField), Prop(NameCn, PrimitiveField)>>)),
      Prop(NameD, ObjectType(<<Prop(NameCn, PrimitiveField), Prop(NameT, PrimitiveField), Prop(NameId, IdField)>>)),
      Prop(NameU, UnionType(<<Prop(NameB, TRUE), Prop(NameA, TRUE)>>)) }

\* sequences of at most n elements of S
SeqUpTo(S, n) == UNION { [1..k -> S] : k \in 0..n }

\* a JavaScript object has each key once
DistinctKeys(obj) == \A i, j \in 1..Len(obj) : obj[i].name = obj[j].name => i = j

Schemas == { s \in SeqUpTo(TypeEntries, MaxTypes) : DistinctKeys(s) }

\* the keys of a JavaScript object, as a set
KeySet(obj) == { obj[i].name : i \in 1..Len(obj) }

RECURSIVE ObjectsOver(_, _, _)
\* the JavaScript objects of exactly k properties with keys in names, the value
\* of key n in values[n]
ObjectsOver(names, values, k) ==
    IF k = 0 THEN {<<>>}
    ELSE UNION { UNION { { Append(o, Prop(n, v)) : v \in values[n] } : n \in names \ KeySet(o) }
                 : o \in ObjectsOver(names, values, k - 1) }

ObjectsUpTo(names, values, max) == UNION { ObjectsOver(names, values, k) : k \in 0..max }

\* the object types handed to _buildSchemaInfo alone: every choice of at most
\* MaxFields fields, exactly one of them the ID field
InfoFieldNames == {NameId, NameT, NameN, NameCn}
InfoFieldTypes == {IdField, PrimitiveField, NodeField(NameA), ConnectionField(NameA)}
InfoObjects ==
    { ObjectType(f) : f \in { g \in ObjectsUpTo(InfoFieldNames, [n \in InfoFieldNames |-> InfoFieldTypes], MaxFields) :
                                Cardinality({i \in 1..Len(g) : g[i].value.type = "ID"}) = 1 } }
InfoUnions == { UnionType(<<>>), UnionType(<<Prop(NameB, TRUE), Prop(NameA, TRUE)>>) }
InfoTypeNames == {NameA, NameB, NameU, Name7}
InfoTypes ==
    [n \in InfoTypeNames |->
        IF n = NameA THEN InfoObjects
        ELSE IF n = NameU THEN InfoUnions
        ELSE IF n = Name7 THEN {UnionType(<<Prop(NameA, TRUE)>>)}
        ELSE {ObjectType(<<Prop(NameT, PrimitiveField), Prop(NameId, IdField),
                           Prop(NameN, NodeField(NameA)), Prop(NameCn, ConnectionField(NameB))>>)}]

----------------------------------------------------------------------------
(* json-stable-stringify: the keys of every object are written in sorted   *)
(* order, so the text is the key-sorted form of the value.                 *)

\* an encoder that writes the keys in property order, as JSON.stringify does
SortKeysNot(obj) == obj

SortKeys(obj) == SortSeq(obj, LAMBDA p, q : NameLess(p.name, q.name))

stringifyType(t) ==
    IF t.type = "OBJECT"
    THEN [type |-> "OBJECT", fields |-> SortKeys(t.fields)]
    ELSE [type |-> "UNION", clauses |-> SortKeys(t.clauses)]

stringifySchema(s) == SortKeys([i \in 1..Len(s) |-> Prop(s[i].name, stringifyType(s[i].value))])

\* stringify({version: "MIRROR_v1", schema: this._schema})
MetaBlob(s) == [version |-> "MIRROR_v1", schema |-> stringifySchema(s)]

----------------------------------------------------------------------------
(* _buildSchemaInfo                                                        *)

EmptyEntry(fields) ==
    [fields |-> fields, primitiveFieldNames |-> <<>>, linkFieldNames |-> <<>>, connectionFieldNames |-> <<>>]

\* the switch on field.type with the break of case "ID" missing
AddFieldFallThrough(entry, fieldname, field) ==
    CASE field.type \in {"ID", "PRIMITIVE"} -> [entry EXCEPT !.primitiveFieldNames = Append(@, fieldname)]
      [] field.type = "NODE" -> [entry EXCEPT !.linkFieldNames = Append(@, fieldname)]
      [] field.type = "CONNECTION" -> [entry EXCEPT !.connectionFieldNames = Append(@, fieldname)]

\* the switch on field.type, for one field
AddField(entry, fieldname, field) ==
    CASE field.type = "ID" -> entry
      [] field.type = "PRIMITIVE" -> [entry EXCEPT !.primitiveFieldNames = Append(@, fieldname)]
      [] field.type = "NODE" -> [entry EXCEPT !.linkFieldNames = Append(@, fieldname)]
      [] field.type = "CONNECTION" -> [entry EXCEPT !.connectionFieldNames = Append(@, fieldname)]

RECURSIVE BuildEntryReversed(_, _, _)
\* the loop over the fields, from the last key to the first
BuildEntryReversed(fields, i, entry) ==
    IF i > Len(fields) THEN entry
    ELSE BuildEntryReversed(fields, i + 1,
                            AddField(entry, ObjectKeys(fields)[Len(fields) + 1 - i], fields[Len(fields) + 1 - i].value))

RECURSIVE BuildEntry(_, _, _)
\* for (const fieldname of Object.keys(type.fields)) ...
BuildEntry(fields, i, entry) ==
    IF i > Len(fields) THEN entry
    ELSE BuildEntry(fields, i + 1, AddField(entry, ObjectKeys(fields)[i], fields[i].value))

\* the clauses of a union in sorted order
AddTypeSortedClauses(result, typename, type) ==
    IF type.type = "OBJECT"
    THEN [result EXCEPT !.objectTypes = Append(@, Prop(typename, BuildEntry(type.fields, 1, EmptyEntry(type.fields))))]
    ELSE [result EXCEPT !.unionTypes = Append(@, Prop(typename, [clauses |-> SortSeq(ObjectKeys(type.clauses), NameLess)]))]

\* the switch on type.type, for one type
AddType(result, typename, type) ==
    IF type.type = "OBJECT"
    THEN [result EXCEPT !.objectTypes = Append(@, Prop(typename, BuildEntry(type.fields, 1, EmptyEntry(type.fields))))]
    ELSE [result EXCEPT !.unionTypes = Append(@, Prop(typename, [clauses |-> ObjectKeys(type.clauses)]))]

RECURSIVE BuildInfo(_, _, _)
\* for (const typename of Object.keys(schema)) ...
BuildInfo(s, i, result) ==
    IF i > Len(s) THEN result
    ELSE BuildInfo(s, i + 1, AddType(result, ObjectKeys(s)[i], s[i].value))

_buildSchemaInfo(s) == BuildInfo(s, 1, [objectTypes |-> <<>>, unionTypes |-> <<>>])

NoInfo == [objectTypes |-> <<>>, unionTypes |-> <<>>]

----------------------------------------------------------------------------
(* The SQLite connection: the tables (columns and rows) and the indices.   *)
(* A statement either succeeds and gives the new database, or raises an    *)
(* error and changes nothing.                                              *)

EmptyDb == [tables |-> <<>>, indices |-> {}]

Ok(db) == [ok |-> TRUE, db |-> db]
Failed(db) == [ok |-> FALSE, db |-> db]

TableExists(db, name) == name \in DOMAIN db.tables

DistinctColumns(cols) == \A i, j \in 1..Len(cols) : cols[i] = cols[j] => i = j

\* CREATE TABLE name (cols): an error when the table exists or a column is repeated
\* the table updates is created with a first row
CreateTableSeeded(db, name, cols) ==
    IF TableExists(db, name) \/ ~DistinctColumns(cols) THEN Failed(db)
    ELSE Ok([db EXCEPT !.tables = (name :> [cols |-> cols,
                                            rows |-> IF name = <<"updates">> THEN {[key |-> 1]} ELSE {}]) @@ @])

CreateTable(db, name, cols) ==
    IF TableExists(db, name) \/ ~DistinctColumns(cols) THEN Failed(db)
    ELSE Ok([db EXCEPT !.tables = (name :> [cols |-> cols, rows |-> {}]) @@ @])

\* the statement without IF NOT EXISTS
CreateTableAlways(db, name, cols) == CreateTable(db, name, cols)

\* CREATE TABLE IF NOT EXISTS name (cols)
CreateTableIfNotExists(db, name, cols) ==
    IF TableExists(db, name) THEN Ok(db) ELSE CreateTable(db, name, cols)

\* CREATE [UNIQUE] INDEX name ON table (...)
CreateIndex(db, name, table) ==
    IF name \in db.indices \/ ~TableExists(db, table) THEN Failed(db)
    ELSE Ok([db EXCEPT !.indices = @ \cup {name}])

\* INSERT INTO table: an error when the table is missing or the primary key is taken
InsertRow(db, table, row) ==
    IF ~TableExists(db, table) THEN Failed(db)
    ELSE IF \E r \in db.tables[table].rows : r.key = row.key THEN Failed(db)
    ELSE Ok([db EXCEPT !.tables[table].rows = @ \cup {row}])

\* the statements run as CREATE TABLE IF NOT EXISTS and CREATE INDEX IF NOT
\* EXISTS: what is there already is accepted
ExecuteIfNotExists(db, stmt) ==
    IF stmt.kind = "table" THEN CreateTableIfNotExists(db, stmt.name, stmt.cols)
    ELSE IF stmt.name \in db.indices THEN Ok(db) ELSE CreateIndex(db, stmt.name, stmt.table)

\* a statement: CREATE TABLE or CREATE INDEX
Execute(db, stmt) ==
    IF stmt.kind = "table" THEN CreateTable(db, stmt.name, stmt.cols)
    ELSE CreateIndex(db, stmt.name, stmt.table)

TableStmt(name, cols) == [kind |-> "table", name |-> name, cols |-> cols]
IndexStmt(name, table) == [kind |-> "index", name |-> name, table |-> table]

\* a statement handed to db.prepare(...).run() or .get(), as the engine sees it
Sql(kind, name, cols) == [kind |-> kind, name |-> name, cols |-> cols]

\* the statement of structuralTables, as the engine sees it
SqlOf(stmt) ==
    IF stmt.kind = "table" THEN Sql("CREATE TABLE", stmt.name, stmt.cols)
    ELSE Sql("CREATE INDEX", stmt.name, <<stmt.table>>)

MetaTable == <<"meta">>
MetaColumns == <<<<"zero">>, <<"schema">>>>

\* the row of INSERT INTO meta (zero, schema) VALUES (1, ?)
MetaRowOne(blob) == [key |-> 1, schema |-> blob]

\* the row of INSERT INTO meta (zero, schema) VALUES (0, ?)
MetaRow(blob) == [key |-> 0, schema |-> blob]

Undefined == "undefined"

\* a value read from the database that may be undefined: <<>> or <<value>>
Absent == <<>>
Present(v) == <<v>>

\* db.prepare("SELECT schema FROM meta").pluck().get(): the blob of the first
\* row, or undefined
SelectSchemaFromMeta(db) ==
    IF db.tables[MetaTable].rows = {} THEN Absent
    ELSE Present((CHOOSE r \in db.tables[MetaTable].rows : TRUE).schema)

\* the array with links and its index moved to the front
structuralTablesLinksFirst ==
    << TableStmt(<<"links">>, <<<<"rowid">>, <<"parent_id">>, <<"fieldname">>, <<"child_id">>>>),
       IndexStmt(<<"idx_links__parent_id__fieldname">>, <<"links">>),
       TableStmt(<<"updates">>, <<<<"rowid">>, <<"time_epoch_millis">>>>),
       TableStmt(<<"objects">>, <<NameId, <<"typename">>, <<"last_update">>>>),
       TableStmt(<<"connections">>,
                 <<<<"rowid">>, <<"object_id">>, <<"fieldname">>, <<"last_update">>,
                   <<"total_count">>, <<"has_next_page">>, <<"end_cursor">>>>),
       IndexStmt(<<"idx_connections__object_id__fieldname">>, <<"connections">>),
       TableStmt(<<"connection_entries">>,
                 <<<<"rowid">>, <<"connection_id">>, <<"idx">>, <<"child_id">>>>),
       IndexStmt(<<"idx_connection_entries__connection_id">>, <<"connection_entries">>) >>

\* the tables named in the FOREIGN KEY clauses of the CREATE TABLE of a table
ForeignKeyTargets(name) ==
    CASE name = <<"objects">> -> {<<"updates">>}
      [] name = <<"links">> -> {<<"objects">>}
      [] name = <<"connections">> -> {<<"objects">>, <<"updates">>}
      [] name = <<"connection_entries">> -> {<<"connections">>, <<"objects">>}
      [] Len(name) >= 1 /\ name[1] = "primitives_" -> {<<"objects">>}
      [] OTHER -> {}

\* the statements of structuralTables, in the order of the array
structuralTables ==
    << TableStmt(<<"updates">>, <<<<"rowid">>, <<"time_epoch_millis">>>>),
       TableStmt(<<"objects">>, <<NameId, <<"typename">>, <<"last_update">>>>),
       TableStmt(<<"links">>, <<<<"rowid">>, <<"parent_id">>, <<"fieldname">>, <<"child_id">>>>),
       IndexStmt(<<"idx_links__parent_id__fieldname">>, <<"links">>),
       TableStmt(<<"connections">>,
                 <<<<"rowid">>, <<"object_id">>, <<"fieldname">>, <<"last_update">>,
                   <<"total_count">>, <<"has_next_page">>, <<"end_cursor">>>>),
       IndexStmt(<<"idx_connections__object_id__fieldname">>, <<"connections">>),
       TableStmt(<<"connection_entries">>,
                 <<<<"rowid">>, <<"connection_id">>, <<"idx">>, <<"child_id">>>>),
       IndexStmt(<<"idx_connection_entries__connection_id">>, <<"connection_entries">>) >>

ObjectsTable == <<"objects">>

\* a row of objects written by the owner of the connection
ObjectRow(id) == [key |-> id, typename |-> NameA, last_update |-> "NULL"]

----------------------------------------------------------------------------
(* Errors and results.                                                     *)

ErrDbNull == "db: null"
ErrSchemaNull == "schema: null"
ErrAlreadyInTransaction == "already in transaction"
ErrMismatch == "Database already populated with incompatible schema or version"
ErrTypeName == "invalid object type name"
ErrFieldName == "invalid field name"
ErrEngine == "SqliteError"
ErrFn == "error of the callback"

NoOutcome == [kind |-> "none", val |-> Undefined]
Returned(v) == [kind |-> "value", val |-> v]
Threw(e) == [kind |-> "error", val |-> e]

\* n: statements run; stmts: the statements, in order; end, val: how the callback
\* ended; open: db.inTransaction when it ended; writes, undone: rows it wrote
\* and rows of its own that it rolled back
NoFnLog == [n |-> 0, stmts |-> <<>>, end |-> "none", val |-> Undefined, open |-> FALSE, writes |-> {}, undone |-> {}]
NoPre == [committed |-> EmptyDb, working |-> EmptyDb, inTransaction |-> FALSE, dbNull |-> FALSE, schemaNull |-> FALSE]

\* the callback has handed one more statement to the engine
Ran(stmt) == [fnLog EXCEPT !.stmts = Append(@, stmt)]

\* the connection's state at a call, and which arguments of the call were null
PreOf(dbNull, schemaNull) ==
    [committed |-> committed, working |-> working, inTransaction |-> inTransaction,
     dbNull |-> dbNull, schemaNull |-> schemaNull]

\* the values a callback may return
FnValues == {"v1", "v2"}

----------------------------------------------------------------------------
(* _inTransaction: the entry, the COMMIT after the callback, the finally.  *)

\* a statement whose change is durable at once, transaction or not
WriteDurable(db) ==
    /\ working' = db
    /\ committed' = db

\* a statement run on the connection: in a transaction the change is pending,
\* outside one (autocommit) it is durable at once
Write(db) ==
    /\ working' = db
    /\ committed' = IF inTransaction THEN committed ELSE db

\* the callback throws: control goes to the finally block
ThrowInFn(e) ==
    /\ outcome' = Threw(e)
    /\ pc' = "finally"

\* the entry without the BEGIN: the callback runs in autocommit mode
EnterNoBegin(first) ==
    IF inTransaction
    THEN /\ outcome' = Threw(ErrAlreadyInTransaction)
         /\ pc' = "done"
         /\ issued' = <<>>
         /\ UNCHANGED inTransaction
    ELSE /\ issued' = <<>>
         /\ outcome' = NoOutcome
         /\ pc' = first
         /\ UNCHANGED inTransaction

\* the entry without the check of db.inTransaction
EnterUnchecked(first) ==
    /\ inTransaction' = TRUE
    /\ issued' = <<"BEGIN">>
    /\ outcome' = NoOutcome
    /\ pc' = first

\* if (db.inTransaction) throw ...; db.prepare("BEGIN").run(); fn() starts at `first`
Enter(first) ==
    IF inTransaction
    THEN /\ outcome' = Threw(ErrAlreadyInTransaction)
         /\ pc' = "done"
         /\ issued' = <<>>
         /\ UNCHANGED inTransaction
    ELSE /\ inTransaction' = TRUE
         /\ issued' = <<"BEGIN">>
         /\ outcome' = NoOutcome
         /\ pc' = first

\* the return without the COMMIT
CommitSkipped ==
    /\ pc = "commit"
    /\ pc' = "finally"
    /\ UNCHANGED <<committed, working, inTransaction, issued, outcome, call, schema, schemaInfo, idx, fnLog, pre>>

\* the results of a COMMIT: done; failed with the transaction still open (busy
\* database); failed with the transaction rolled back by the engine (disk full,
\* I/O error)
CommitResults == {"ok", "failed", "failedRolledBack"}

\* the COMMIT without the check of db.inTransaction: outside a transaction the
\* engine refuses it
CommitAlways ==
    /\ pc = "commit"
    /\ IF inTransaction
       THEN /\ committed' = working
            /\ inTransaction' = FALSE
            /\ UNCHANGED <<working, outcome>>
       ELSE /\ outcome' = Threw(ErrEngine)
            /\ UNCHANGED <<committed, working, inTransaction>>
    /\ issued' = Append(issued, "COMMIT")
    /\ pc' = "finally"
    /\ UNCHANGED <<call, schema, schemaInfo, idx, fnLog, pre>>

\* the COMMIT only of the transaction that _inTransaction began itself: none
\* when the callback has committed
CommitOwnOnly ==
    /\ pc = "commit"
    /\ IF inTransaction /\ ~\E i \in 1..Len(fnLog.stmts) : fnLog.stmts[i].kind = "COMMIT"
       THEN /\ committed' = working
            /\ inTransaction' = FALSE
            /\ issued' = Append(issued, "COMMIT")
            /\ UNCHANGED <<working, outcome>>
       ELSE UNCHANGED <<committed, working, inTransaction, issued, outcome>>
    /\ pc' = "finally"
    /\ UNCHANGED <<call, schema, schemaInfo, idx, fnLog, pre>>

\* const result = fn() has returned: if (db.inTransaction) COMMIT.  A COMMIT
\* that has changes to write may fail.
Commit ==
    /\ pc = "commit"
    /\ IF inTransaction
       THEN \E result \in CommitResults :
              IF result = "failed" /\ working # committed
              THEN /\ outcome' = Threw(ErrEngine)
                   /\ issued' = Append(issued, "COMMIT")
                   /\ UNCHANGED <<committed, working, inTransaction>>
              ELSE IF result = "failedRolledBack" /\ working # committed
              THEN /\ outcome' = Threw(ErrEngine)
                   /\ issued' = Append(issued, "COMMIT")
                   /\ working' = committed
                   /\ inTransaction' = FALSE
                   /\ UNCHANGED committed
              ELSE /\ committed' = working
                   /\ inTransaction' = FALSE
                   /\ issued' = Append(issued, "COMMIT")
                   /\ UNCHANGED <<working, outcome>>
       ELSE UNCHANGED <<committed, working, inTransaction, issued, outcome>>
    /\ pc' = "finally"
    /\ UNCHANGED <<call, schema, schemaInfo, idx, fnLog, pre>>

\* a wrapper without the finally block
FinallyNoRollback ==
    /\ pc = "finally"
    /\ pc' = "done"
    /\ UNCHANGED <<committed, working, inTransaction, issued, call, schema, schemaInfo, idx, fnLog, outcome, pre>>

\* finally { if (db.inTransaction) ROLLBACK }, then the return or the rethrow
Finally ==
    /\ pc = "finally"
    /\ IF inTransaction
       THEN /\ working' = committed
            /\ inTransaction' = FALSE
            /\ issued' = Append(issued, "ROLLBACK")
       ELSE UNCHANGED <<working, inTransaction, issued>>
    /\ pc' = "done"
    /\ UNCHANGED <<committed, call, schema, schemaInfo, idx, fnLog, outcome, pre>>

\* the caller has the result (or the error); the connection is idle again
Return ==
    /\ pc = "done"
    /\ pc' = "idle"
    /\ call' = "none"
    /\ schema' = <<>>
    /\ schemaInfo' = NoInfo
    /\ idx' = 0
    /\ fnLog' = NoFnLog
    /\ issued' = <<>>
    /\ outcome' = NoOutcome
    /\ pre' = NoPre
    /\ UNCHANGED <<committed, working, inTransaction>>

----------------------------------------------------------------------------
(* The Mirror constructor and the callback of Mirror._initialize, one      *)
(* action for each SQL statement.  A statement that writes may fail in the *)
(* engine (disk full, I/O error); the error propagates out of the callback.*)

\* the arguments of the constructor: null (Absent) or a value
DbArguments == {Absent, Present("db")}
SchemaArguments == {Absent} \cup { Present(s) : s \in Schemas }

\* the constructor with its two null checks in the other order
NewMirrorSchemaFirst(db, s) ==
    /\ pc = "idle"
    /\ call' = "mirror"
    /\ idx' = 0
    /\ fnLog' = NoFnLog
    /\ pre' = PreOf(db = Absent, s = Absent)
    /\ IF s = Absent
       THEN /\ outcome' = Threw(ErrSchemaNull)
            /\ pc' = "done"
            /\ issued' = <<>>
            /\ UNCHANGED <<schema, schemaInfo, inTransaction>>
       ELSE IF db = Absent
       THEN /\ outcome' = Threw(ErrDbNull)
            /\ pc' = "done"
            /\ issued' = <<>>
            /\ UNCHANGED <<schema, schemaInfo, inTransaction>>
       ELSE /\ schema' = s[1]
            /\ schemaInfo' = _buildSchemaInfo(s[1])
            /\ Enter("createMeta")
    /\ UNCHANGED <<committed, working>>

\* new Mirror(db, schema): the null checks, then _buildSchemaInfo, then
\* _initialize up to the BEGIN of _inTransaction
NewMirror(db, s) ==
    /\ pc = "idle"
    /\ call' = "mirror"
    /\ idx' = 0
    /\ fnLog' = NoFnLog
    /\ pre' = PreOf(db = Absent, s = Absent)
    /\ IF db = Absent
       THEN /\ outcome' = Threw(ErrDbNull)
            /\ pc' = "done"
            /\ issued' = <<>>
            /\ UNCHANGED <<schema, schemaInfo, inTransaction>>
       ELSE IF s = Absent
       THEN /\ outcome' = Threw(ErrSchemaNull)
            /\ pc' = "done"
            /\ issued' = <<>>
            /\ UNCHANGED <<schema, schemaInfo, inTransaction>>
       ELSE /\ schema' = s[1]
            /\ schemaInfo' = _buildSchemaInfo(s[1])
            /\ Enter("createMeta")
    /\ UNCHANGED <<committed, working>>

\* CREATE TABLE IF NOT EXISTS meta
CreateMeta ==
    /\ pc = "createMeta"
    /\ LET r == CreateTableIfNotExists(working, MetaTable, MetaColumns) IN
       \E fail \in BOOLEAN :
         IF ~r.ok \/ (fail /\ r.db # working)
         THEN ThrowInFn(ErrEngine) /\ UNCHANGED <<committed, working>>
         ELSE Write(r.db) /\ pc' = "selectMeta" /\ UNCHANGED outcome
    /\ fnLog' = Ran(Sql("CREATE TABLE IF NOT EXISTS", MetaTable, MetaColumns))
    /\ UNCHANGED <<inTransaction, call, schema, schemaInfo, idx, issued, pre>>

\* the comparison without the branch of the mismatch
SelectMetaNoMismatch ==
    /\ pc = "selectMeta"
    /\ IF SelectSchemaFromMeta(working) = Present(MetaBlob(schema))
       THEN /\ outcome' = Returned(Undefined)
            /\ pc' = "commit"
       ELSE /\ pc' = "insertMeta"
            /\ UNCHANGED outcome
    /\ fnLog' = Ran(Sql("SELECT", MetaTable, <<<<"schema">>>>))
    /\ UNCHANGED <<committed, working, inTransaction, call, schema, schemaInfo, idx, issued, pre>>

\* the comparison without the early return of the equal blob
SelectMetaNoEarlyReturn ==
    /\ pc = "selectMeta"
    /\ LET blob == MetaBlob(schema)
           existingBlob == SelectSchemaFromMeta(working) IN
       IF existingBlob # Absent /\ existingBlob # Present(blob)
       THEN ThrowInFn(ErrMismatch)
       ELSE /\ pc' = "insertMeta"
            /\ UNCHANGED outcome
    /\ fnLog' = Ran(Sql("SELECT", MetaTable, <<<<"schema">>>>))
    /\ UNCHANGED <<committed, working, inTransaction, call, schema, schemaInfo, idx, issued, pre>>

\* SELECT schema FROM meta, and the comparison with blob
SelectMeta ==
    /\ pc = "selectMeta"
    /\ LET blob == MetaBlob(schema)
           existingBlob == SelectSchemaFromMeta(working) IN
       IF existingBlob = Present(blob)
       THEN /\ outcome' = Returned(Undefined)
            /\ pc' = "commit"
       ELSE IF existingBlob # Absent
       THEN ThrowInFn(ErrMismatch)
       ELSE /\ pc' = "insertMeta"
            /\ UNCHANGED outcome
    /\ fnLog' = Ran(Sql("SELECT", MetaTable, <<<<"schema">>>>))
    /\ UNCHANGED <<committed, working, inTransaction, call, schema, schemaInfo, idx, issued, pre>>

\* INSERT INTO meta (zero, schema) VALUES (0, ?)
InsertMeta ==
    /\ pc = "insertMeta"
    /\ LET r == InsertRow(working, MetaTable, MetaRow(MetaBlob(schema))) IN
       \E fail \in BOOLEAN :
         IF ~r.ok \/ fail
         THEN ThrowInFn(ErrEngine) /\ UNCHANGED <<committed, working, idx>>
         ELSE Write(r.db) /\ pc' = "structural" /\ idx' = 1 /\ UNCHANGED outcome
    /\ fnLog' = Ran(Sql("INSERT", MetaTable, MetaColumns))
    /\ UNCHANGED <<inTransaction, call, schema, schemaInfo, issued, pre>>

\* for (const sql of structuralTables) db.prepare(sql).run(): one statement
Structural ==
    /\ pc = "structural"
    /\ LET r == Execute(working, structuralTables[idx]) IN
       \E fail \in BOOLEAN :
         IF ~r.ok \/ fail
         THEN ThrowInFn(ErrEngine) /\ UNCHANGED <<committed, working, idx>>
         ELSE /\ Write(r.db)
              /\ IF idx = Len(structuralTables)
                 THEN pc' = "types" /\ idx' = 1
                 ELSE pc' = "structural" /\ idx' = idx + 1
              /\ UNCHANGED outcome
    /\ fnLog' = Ran(SqlOf(structuralTables[idx]))
    /\ UNCHANGED <<inTransaction, call, schema, schemaInfo, issued, pre>>

RECURSIVE PrimitiveColumnsUnchecked(_, _, _)
\* the loop over the fields without the isSqlSafe check of case "PRIMITIVE"
PrimitiveColumnsUnchecked(fields, i, names) ==
    IF i > Len(fields) THEN [error |-> "none", names |-> names]
    ELSE IF fields[i].value.type = "PRIMITIVE"
         THEN PrimitiveColumnsUnchecked(fields, i + 1, Append(names, ObjectKeys(fields)[i]))
         ELSE PrimitiveColumnsUnchecked(fields, i + 1, names)

RECURSIVE PrimitiveColumns(_, _, _)
\* the loop over Object.keys(nodeType.fields): the primitive field names, or the
\* error of the first primitive field name that is not SQL-safe
PrimitiveColumns(fields, i, names) ==
    IF i > Len(fields) THEN [error |-> "none", names |-> names]
    ELSE LET fieldname == ObjectKeys(fields)[i]
             field == fields[i].value IN
         IF field.type = "PRIMITIVE"
         THEN IF ~isSqlSafe(fieldname)
              THEN [error |-> ErrFieldName, names |-> names]
              ELSE PrimitiveColumns(fields, i + 1, Append(names, fieldname))
         ELSE PrimitiveColumns(fields, i + 1, names)

\* the column list without its first element
TableSpecNoId(primitiveFieldNames) == primitiveFieldNames

\* the columns of CREATE TABLE "primitives_T": id, then the primitive fields
TableSpec(primitiveFieldNames) == <<NameId>> \o primitiveFieldNames

\* the loop body without case "UNION": a union gets a table like an object type
TypesUnionTable ==
    /\ pc = "types"
    /\ idx <= Len(schema)
    /\ LET typename == ObjectKeys(schema)[idx]
           nodeType == schema[idx].value
           fields == IF nodeType.type = "UNION" THEN <<>> ELSE nodeType.fields IN
       IF ~isSqlSafe(typename)
       THEN ThrowInFn(ErrTypeName) /\ UNCHANGED <<committed, working, idx, fnLog>>
       ELSE LET p == PrimitiveColumns(fields, 1, <<>>) IN
            IF p.error # "none"
            THEN ThrowInFn(p.error) /\ UNCHANGED <<committed, working, idx, fnLog>>
            ELSE LET r == CreateTable(working, primitivesTableName(typename), TableSpec(p.names)) IN
                 /\ fnLog' = Ran(Sql("CREATE TABLE", primitivesTableName(typename), TableSpec(p.names)))
                 /\ \E fail \in BOOLEAN :
                      IF ~r.ok \/ fail
                      THEN ThrowInFn(ErrEngine) /\ UNCHANGED <<committed, working, idx>>
                      ELSE Write(r.db) /\ idx' = idx + 1 /\ UNCHANGED <<pc, outcome>>
    /\ UNCHANGED <<inTransaction, call, schema, schemaInfo, issued, pre>>

\* for (const typename of Object.keys(schema)): one type
Types ==
    /\ pc = "types"
    /\ idx <= Len(schema)
    /\ LET typename == ObjectKeys(schema)[idx]
           nodeType == schema[idx].value IN
       IF nodeType.type = "UNION"
       THEN /\ idx' = idx + 1
            /\ UNCHANGED <<committed, working, pc, outcome, fnLog>>
       ELSE IF ~isSqlSafe(typename)
       THEN ThrowInFn(ErrTypeName) /\ UNCHANGED <<committed, working, idx, fnLog>>
       ELSE LET p == PrimitiveColumns(nodeType.fields, 1, <<>>) IN
            IF p.error # "none"
            THEN ThrowInFn(p.error) /\ UNCHANGED <<committed, working, idx, fnLog>>
            ELSE LET r == CreateTable(working, primitivesTableName(typename), TableSpec(p.names)) IN
                 /\ fnLog' = Ran(Sql("CREATE TABLE", primitivesTableName(typename), TableSpec(p.names)))
                 /\ \E fail \in BOOLEAN :
                      IF ~r.ok \/ fail
                      THEN ThrowInFn(ErrEngine) /\ UNCHANGED <<committed, working, idx>>
                      ELSE Write(r.db) /\ idx' = idx + 1 /\ UNCHANGED <<pc, outcome>>
    /\ UNCHANGED <<inTransaction, call, schema, schemaInfo, issued, pre>>

\* the loop over the types is over: the callback returns
TypesDone ==
    /\ pc = "types"
    /\ idx > Len(schema)
    /\ outcome' = Returned(Undefined)
    /\ pc' = "commit"
    /\ UNCHANGED <<committed, working, inTransaction, call, schema, schemaInfo, idx, fnLog, issued, pre>>

----------------------------------------------------------------------------
(* The owner of the connection, between the calls.                         *)

ClientBegin ==
    /\ pc = "idle"
    /\ ~inTransaction
    /\ inTransaction' = TRUE
    /\ UNCHANGED <<committed, working, pc, call, schema, schemaInfo, idx, fnLog, issued, outcome, pre>>

ClientRows(db) == IF TableExists(db, ObjectsTable) THEN db.tables[ObjectsTable].rows ELSE {}

\* INSERT INTO objects
ClientInsertObject ==
    /\ pc = "idle"
    /\ Cardinality(ClientRows(working)) < MaxRows
    /\ LET r == InsertRow(working, ObjectsTable, ObjectRow(<<"client", Cardinality(ClientRows(working)) + 1>>)) IN
       /\ r.ok
       /\ Write(r.db)
    /\ UNCHANGED <<inTransaction, pc, call, schema, schemaInfo, idx, fnLog, issued, outcome, pre>>

ClientCommit ==
    /\ pc = "idle"
    /\ inTransaction
    /\ committed' = working
    /\ inTransaction' = FALSE
    /\ UNCHANGED <<working, pc, call, schema, schemaInfo, idx, fnLog, issued, outcome, pre>>

ClientRollback ==
    /\ pc = "idle"
    /\ inTransaction
    /\ working' = committed
    /\ inTransaction' = FALSE
    /\ UNCHANGED <<committed, pc, call, schema, schemaInfo, idx, fnLog, issued, outcome, pre>>

Client == ClientBegin \/ ClientInsertObject \/ ClientCommit \/ ClientRollback

----------------------------------------------------------------------------
(* The specification of the Mirror on one database.                        *)

Init ==
    /\ committed = EmptyDb
    /\ working = EmptyDb
    /\ inTransaction = FALSE
    /\ pc = "idle"
    /\ call = "none"
    /\ schema = <<>>
    /\ schemaInfo = NoInfo
    /\ idx = 0
    /\ fnLog = NoFnLog
    /\ issued = <<>>
    /\ outcome = NoOutcome
    /\ pre = NoPre

Next ==
    \/ \E db \in DbArguments, s \in SchemaArguments : NewMirror(db, s)
    \/ CreateMeta
    \/ SelectMeta
    \/ InsertMeta
    \/ Structural
    \/ Types
    \/ TypesDone
    \/ Commit
    \/ Finally
    \/ Return
    \/ Client

Spec == Init /\ [][Next]_vars

----------------------------------------------------------------------------
(* _inTransaction with any callback.  The callback runs statements of its  *)
(* own (INSERT, BEGIN, COMMIT, ROLLBACK), then returns a value or throws.  *)
(* An error of one of its statements propagates out of it.                 *)

\* _inTransaction(db, fn)
CallInTransaction ==
    /\ pc = "idle"
    /\ call' = "txn"
    /\ fnLog' = NoFnLog
    /\ pre' = PreOf(FALSE, FALSE)
    /\ Enter("fn")
    /\ UNCHANGED <<committed, working, schema, schemaInfo, idx>>

\* the callback runs one more statement
FnStep(kind) == [fnLog EXCEPT !.n = @ + 1, !.stmts = Append(@, Sql(kind, <<>>, <<>>))]

\* the callback ends by throwing e
FnThrows(log, e) ==
    /\ fnLog' = [log EXCEPT !.end = "threw", !.val = e, !.open = inTransaction]
    /\ ThrowInFn(e)

\* fn: INSERT INTO objects
FnWrite ==
    /\ pc = "fn"
    /\ fnLog.n < MaxFnSteps
    /\ LET row == ObjectRow(<<"fn", fnLog.n + 1>>)
           r == InsertRow(working, ObjectsTable, row) IN
       IF r.ok
       THEN /\ Write(r.db)
            /\ fnLog' = [FnStep("INSERT") EXCEPT !.writes = @ \cup {row}]
            /\ UNCHANGED <<pc, outcome>>
       ELSE FnThrows(FnStep("INSERT"), ErrEngine) /\ UNCHANGED <<committed, working>>
    /\ UNCHANGED <<inTransaction, call, schema, schemaInfo, idx, issued, pre>>

\* fn: BEGIN (an error inside a transaction)
FnBegin ==
    /\ pc = "fn"
    /\ fnLog.n < MaxFnSteps
    /\ IF inTransaction
       THEN FnThrows(FnStep("BEGIN"), ErrEngine) /\ UNCHANGED inTransaction
       ELSE inTransaction' = TRUE /\ fnLog' = FnStep("BEGIN") /\ UNCHANGED <<pc, outcome>>
    /\ UNCHANGED <<committed, working, call, schema, schemaInfo, idx, issued, pre>>

\* fn: COMMIT (an error outside a transaction)
FnCommit ==
    /\ pc = "fn"
    /\ fnLog.n < MaxFnSteps
    /\ IF inTransaction
       THEN /\ committed' = working
            /\ inTransaction' = FALSE
            /\ fnLog' = FnStep("COMMIT")
            /\ UNCHANGED <<pc, outcome>>
       ELSE FnThrows(FnStep("COMMIT"), ErrEngine) /\ UNCHANGED <<committed, inTransaction>>
    /\ UNCHANGED <<working, call, schema, schemaInfo, idx, issued, pre>>

\* fn: ROLLBACK (an error outside a transaction); the pending rows are undone
FnRollback ==
    /\ pc = "fn"
    /\ fnLog.n < MaxFnSteps
    /\ IF inTransaction
       THEN /\ working' = committed
            /\ inTransaction' = FALSE
            /\ fnLog' = [FnStep("ROLLBACK") EXCEPT !.undone = @ \cup (ClientRows(working) \ ClientRows(committed))]
            /\ UNCHANGED <<pc, outcome>>
       ELSE FnThrows(FnStep("ROLLBACK"), ErrEngine) /\ UNCHANGED <<working, inTransaction>>
    /\ UNCHANGED <<committed, call, schema, schemaInfo, idx, issued, pre>>

\* fn returns v: const result = fn()
FnReturn(v) ==
    /\ pc = "fn"
    /\ fnLog' = [fnLog EXCEPT !.end = "returned", !.val = v, !.open = inTransaction]
    /\ outcome' = Returned(v)
    /\ pc' = "commit"
    /\ UNCHANGED <<committed, working, inTransaction, call, schema, schemaInfo, idx, issued, pre>>

\* fn throws an error of its own
FnThrow ==
    /\ pc = "fn"
    /\ FnThrows(fnLog, ErrFn)
    /\ UNCHANGED <<committed, working, inTransaction, call, schema, schemaInfo, idx, issued, pre>>

RECURSIVE ExecuteAll(_, _, _)
ExecuteAll(db, stmts, i) ==
    IF i > Len(stmts) THEN db ELSE ExecuteAll(Execute(db, stmts[i]).db, stmts, i + 1)

\* the database that new Mirror(db, {}) leaves: meta with its row, the structural tables
InitializedDb ==
    ExecuteAll(InsertRow(CreateTable(EmptyDb, MetaTable, MetaColumns).db, MetaTable, MetaRow(MetaBlob(<<>>))).db,
               structuralTables, 1)

InitTxn ==
    /\ committed = InitializedDb
    /\ working = InitializedDb
    /\ inTransaction = FALSE
    /\ pc = "idle"
    /\ call = "none"
    /\ schema = <<>>
    /\ schemaInfo = NoInfo
    /\ idx = 0
    /\ fnLog = NoFnLog
    /\ issued = <<>>
    /\ outcome = NoOutcome
    /\ pre = NoPre

NextTxn ==
    \/ CallInTransaction
    \/ FnWrite
    \/ FnBegin
    \/ FnCommit
    \/ FnRollback
    \/ \E v \in FnValues : FnReturn(v)
    \/ FnThrow
    \/ Commit
    \/ Finally
    \/ Return
    \/ Client

SpecTxn == InitTxn /\ [][NextTxn]_vars

----------------------------------------------------------------------------
(* _buildSchemaInfo alone: the caller declares at most MaxTypes types, one  *)
(* at a time, and hands the schema to _buildSchemaInfo.                    *)

InitInfo ==
    /\ schema = <<>>
    /\ committed = EmptyDb
    /\ working = EmptyDb
    /\ inTransaction = FALSE
    /\ pc = "idle"
    /\ call = "none"
    /\ schemaInfo = NoInfo
    /\ idx = 0
    /\ fnLog = NoFnLog
    /\ issued = <<>>
    /\ outcome = NoOutcome
    /\ pre = NoPre

\* the caller adds a type to the schema it is writing
DeclareType ==
    /\ pc = "idle"
    /\ Len(schema) < MaxTypes
    /\ \E n \in InfoTypeNames \ KeySet(schema) :
         \E t \in InfoTypes[n] : schema' = DefineProperty(schema, n, t)
    /\ UNCHANGED <<committed, working, inTransaction, pc, call, schemaInfo, idx, fnLog, issued, outcome, pre>>

\* this._schemaInfo = _buildSchemaInfo(this._schema)
BuildSchemaInfo ==
    /\ pc = "idle"
    /\ call' = "info"
    /\ schemaInfo' = _buildSchemaInfo(schema)
    /\ pc' = "built"
    /\ UNCHANGED <<committed, working, inTransaction, schema, idx, fnLog, issued, outcome, pre>>

NextInfo == DeclareType \/ BuildSchemaInfo

SpecInfo == InitInfo /\ [][NextInfo]_vars

----------------------------------------------------------------------------
(* Properties of _buildSchemaInfo.                                         *)

\* the elements of a sequence, as a set
Range(seq) == { seq[i] : i \in 1..Len(seq) }

NoDuplicates(seq) == \A i, j \in 1..Len(seq) : seq[i] = seq[j] => i = j

\* the names of the fields of `fields` whose type is ID
IdFieldNames(fields) == { fields[i].name : i \in { j \in 1..Len(fields) : fields[j].value.type = "ID" } }

PartitionOf(entry) ==
    LET P == Range(entry.primitiveFieldNames)
        L == Range(entry.linkFieldNames)
        C == Range(entry.connectionFieldNames) IN
    /\ P \cap L = {} /\ P \cap C = {} /\ L \cap C = {}
    /\ NoDuplicates(entry.primitiveFieldNames)
    /\ NoDuplicates(entry.linkFieldNames)
    /\ NoDuplicates(entry.connectionFieldNames)
    /\ (P \cup L \cup C) \cap IdFieldNames(entry.fields) = {}
    /\ P \cup L \cup C \cup IdFieldNames(entry.fields) = KeySet(entry.fields)
    /\ Cardinality(IdFieldNames(entry.fields)) = 1

\* C10 (partition completeness): for every object type T of the schema,
\* _buildSchemaInfo has an entry for T whose fields are T's fields (ID field
\* included), and the entry's primitive, link and connection field names are
\* pairwise disjoint, without duplicates, without the ID field, and together
\* with the ID field are exactly the keys of T's fields.
PartitionCompleteness ==
    pc = "built" =>
        \A i \in 1..Len(schema) :
            schema[i].value.type = "OBJECT" =>
                \E k \in 1..Len(schemaInfo.objectTypes) :
                    /\ schemaInfo.objectTypes[k].name = schema[i].name
                    /\ schemaInfo.objectTypes[k].value.fields = schema[i].value.fields
                    /\ PartitionOf(schemaInfo.objectTypes[k].value)

\* an object type with a primitive, a link and a connection field has been decomposed
PartitionWitness ==
    /\ pc = "built"
    /\ \E k \in 1..Len(schemaInfo.objectTypes) :
         LET e == schemaInfo.objectTypes[k].value IN
         /\ e.primitiveFieldNames # <<>>
         /\ e.linkFieldNames # <<>>
         /\ e.connectionFieldNames # <<>>
    /\ \E k \in 1..Len(schemaInfo.objectTypes) :
         LET e == schemaInfo.objectTypes[k].value IN
         /\ Len(e.fields) = 3
         /\ e.fields[3].value.type = "ID"
         /\ Len(e.linkFieldNames) = 2

\* the names of the fields of `fields` whose type is kind, in the order of the fields
NamesOfKind(fields, kind) ==
    LET sel == SelectSeq(fields, LAMBDA f : f.value.type = kind) IN
    [i \in 1..Len(sel) |-> sel[i].name]

\* the names of the types of s whose type is kind
TypeNamesOfKind(s, kind) == { s[i].name : i \in { j \in 1..Len(s) : s[j].value.type = kind } }

\* C23 (decomposition by kind): _buildSchemaInfo puts each type name of the
\* schema in objectTypes when its kind is OBJECT and in unionTypes when its
\* kind is UNION, once, so the two key sets are disjoint and together are the
\* type names of the schema; the clauses of a union entry are the keys of the
\* declared clauses in the order of Object.keys; and the primitive, link and
\* connection field names of an object entry are the names of the PRIMITIVE,
\* NODE and CONNECTION fields in the order of Object.keys.
DecompositionByKind ==
    pc = "built" =>
        /\ KeySet(schemaInfo.objectTypes) = TypeNamesOfKind(schema, "OBJECT")
        /\ KeySet(schemaInfo.unionTypes) = TypeNamesOfKind(schema, "UNION")
        /\ KeySet(schemaInfo.objectTypes) \cap KeySet(schemaInfo.unionTypes) = {}
        /\ KeySet(schemaInfo.objectTypes) \cup KeySet(schemaInfo.unionTypes) = KeySet(schema)
        /\ NoDuplicates(ObjectKeys(schemaInfo.objectTypes))
        /\ NoDuplicates(ObjectKeys(schemaInfo.unionTypes))
        /\ \A i \in 1..Len(schema) :
             /\ schema[i].value.type = "UNION" =>
                  \E k \in 1..Len(schemaInfo.unionTypes) :
                      /\ schemaInfo.unionTypes[k].name = schema[i].name
                      /\ Len(schemaInfo.unionTypes[k].value.clauses) = Len(schema[i].value.clauses)
                      /\ \A c \in 1..Len(schema[i].value.clauses) :
                            schemaInfo.unionTypes[k].value.clauses[c] = schema[i].value.clauses[c].name
             /\ schema[i].value.type = "OBJECT" =>
                  \E k \in 1..Len(schemaInfo.objectTypes) :
                      LET e == schemaInfo.objectTypes[k].value IN
                      /\ schemaInfo.objectTypes[k].name = schema[i].name
                      /\ e.primitiveFieldNames = NamesOfKind(schema[i].value.fields, "PRIMITIVE")
                      /\ e.linkFieldNames = NamesOfKind(schema[i].value.fields, "NODE")
                      /\ e.connectionFieldNames = NamesOfKind(schema[i].value.fields, "CONNECTION")

\* a schema with a union whose clauses are B and A, in that order, and an
\* object type with two primitive fields, c before t
DecompositionByKindWitness ==
    /\ pc = "built"
    /\ Len(schema) = 2
    /\ \E k \in 1..Len(schemaInfo.unionTypes) : schemaInfo.unionTypes[k].value.clauses = <<NameB, NameA>>
    /\ Len(schemaInfo.objectTypes) = 1
    /\ schemaInfo.objectTypes[1].value.primitiveFieldNames = <<NameCn, NameT>>

----------------------------------------------------------------------------
(* Properties of the Mirror constructor (specification Spec).              *)

\* the rows of meta, none when the table is missing
MetaRows(db) == IF TableExists(db, MetaTable) THEN db.tables[MetaTable].rows ELSE {}

\* a call of the Mirror constructor that got to _initialize has just ended
MirrorDone == pc = "done" /\ call = "mirror" /\ outcome \notin {Threw(ErrDbNull), Threw(ErrSchemaNull)}

\* the database and the connection are as they were when the call was made
DbUnchanged ==
    /\ committed = pre.committed
    /\ working = pre.working
    /\ inTransaction = pre.inTransaction

\* the names of the object types of a schema
ObjectTypeNames(s) == { s[i].name : i \in { j \in 1..Len(s) : s[j].value.type = "OBJECT" } }

\* the primitive field names of the object types of a schema
PrimitiveFieldNamesOf(s) ==
    UNION { { s[i].value.fields[k].name :
                k \in { j \in 1..Len(s[i].value.fields) : s[i].value.fields[j].value.type = "PRIMITIVE" } }
            : i \in { j \in 1..Len(s) : s[j].value.type = "OBJECT" } }

\* the names of a schema that become part of an SQL identifier
IdentifierNames(s) == ObjectTypeNames(s) \cup PrimitiveFieldNamesOf(s)

\* the name matches ^[A-Za-z0-9_]+$
MatchesIdentifierPattern(name) ==
    /\ Len(name) >= 1
    /\ \A i \in 1..Len(name) : name[i] \in SqlSafeChars

\* the name has a character outside [A-Za-z0-9_]
HasUnsafeCharacter(name) == \E i \in 1..Len(name) : name[i] \notin SqlSafeChars

\* C1 (idempotent re-init): when the Mirror constructor is run with schema S
\* on a database whose meta row holds the blob of S (an earlier initialize
\* with S succeeded), the database and the connection are left as they were,
\* rows added in between included, and the call returns without error (it is
\* made outside a transaction, as _inTransaction requires).
IdempotentReinit ==
    (MirrorDone /\ MetaRows(pre.working) = {MetaRow(MetaBlob(schema))}) =>
        /\ DbUnchanged
        /\ (~pre.inTransaction => outcome = Returned(Undefined))

\* a second initialize with a two-type schema has returned, on a database that
\* has a row in objects
IdempotentReinitWitness ==
    /\ MirrorDone
    /\ ~pre.inTransaction
    /\ Len(schema) = 2
    /\ MetaRows(pre.committed) = {MetaRow(MetaBlob(schema))}
    /\ ClientRows(pre.committed) # {}
    /\ ClientRows(committed) = ClientRows(pre.committed)
    /\ outcome = Returned(Undefined)

\* C2 (strict version gating): when the Mirror constructor is run with schema
\* S' on a database whose meta row holds a blob other than the blob of S', the
\* call fails, with the mismatch error when it is made outside a transaction,
\* and the database is as it was (same meta blob, tables, columns and rows).
StrictVersionGating ==
    (MirrorDone /\ MetaRows(pre.working) # {} /\ MetaRows(pre.working) # {MetaRow(MetaBlob(schema))}) =>
        /\ outcome.kind = "error"
        /\ (~pre.inTransaction => outcome = Threw(ErrMismatch))
        /\ DbUnchanged

\* the mismatch error has been raised on a database initialized with type A and
\* holding a row in objects; primitives_A still has the columns id, t
StrictVersionGatingWitness ==
    /\ MirrorDone
    /\ ~pre.inTransaction
    /\ outcome = Threw(ErrMismatch)
    /\ schema # <<>>
    /\ ClientRows(committed) # {}
    /\ TableExists(committed, primitivesTableName(NameA))
    /\ committed.tables[primitivesTableName(NameA)].cols = <<NameId, NameT>>

\* C3 (all-or-nothing init): when the Mirror constructor fails on a fresh
\* database, whatever the step that failed, the database has no table, no
\* index and no meta row afterwards, and the connection is as it was.
AllOrNothingInit ==
    (MirrorDone /\ pre.committed = EmptyDb /\ pre.working = EmptyDb /\ outcome.kind = "error") =>
        /\ committed = EmptyDb
        /\ working = EmptyDb
        /\ inTransaction = pre.inTransaction

\* the engine has failed on the table of the second type, after meta, its row,
\* the structural tables and the table of the first type were created
AllOrNothingInitWitness ==
    /\ MirrorDone
    /\ pre.committed = EmptyDb
    /\ ~pre.inTransaction
    /\ outcome = Threw(ErrEngine)
    /\ Len(schema) = 2
    /\ idx = 2
    /\ \A i \in 1..2 : schema[i].value.type = "OBJECT"
    /\ \A n \in IdentifierNames(schema) : isSqlSafe(n)
    /\ "ROLLBACK" \in Range(issued)
    /\ working = EmptyDb

LayoutTables(s) ==
    {MetaTable, <<"updates">>, <<"objects">>, <<"links">>, <<"connections">>, <<"connection_entries">>}
        \cup { <<"primitives_">> \o t : t \in ObjectTypeNames(s) }

LayoutIndices ==
    { <<"idx_links__parent_id__fieldname">>,
      <<"idx_connections__object_id__fieldname">>,
      <<"idx_connection_entries__connection_id">> }

\* the database holds the whole layout of schema s, and the meta row of s
CompleteLayout(db, s) ==
    /\ DOMAIN db.tables = LayoutTables(s)
    /\ db.indices = LayoutIndices
    /\ MetaRows(db) = {MetaRow(MetaBlob(s))}

\* C8 (atomic visibility): at every point of a run of the Mirror constructor,
\* the committed database, which is what any other reader sees, is either the
\* database as it was when the call was made or the complete layout of the
\* schema (meta row, structural tables, indices, every primitives table).
AtomicVisibility ==
    (call = "mirror" /\ outcome \notin {Threw(ErrDbNull), Threw(ErrSchemaNull)}) => (committed = pre.committed \/ CompleteLayout(committed, schema))

\* in the middle of a run on a fresh database: the connection already sees
\* meta, the structural tables and the table of the first type, other readers
\* still see the empty database
AtomicVisibilityWitness ==
    /\ call = "mirror"
    /\ pc = "types"
    /\ idx = 2
    /\ Len(schema) = 2
    /\ committed = EmptyDb
    /\ pre.committed = EmptyDb
    /\ TableExists(working, primitivesTableName(schema[1].name))
    /\ ~CompleteLayout(working, schema)

\* the blob of the meta row, if there is one
CommittedBlob(db) == IF MetaRows(db) = {} THEN Absent ELSE SelectSchemaFromMeta(db)

\* C9 (meta is write-once): in every step, the committed meta table has at most
\* one row and that row has zero = 0; a committed blob never changes; and a blob
\* is first committed by the COMMIT of a run of the Mirror constructor, as the
\* canonical serialization of {version: "MIRROR_v1", schema} of that run.
MetaWriteOnce ==
    [][ /\ Cardinality(MetaRows(committed')) <= 1
        /\ \A r \in MetaRows(committed') : r.key = 0
        /\ (CommittedBlob(committed) # Absent => CommittedBlob(committed') = CommittedBlob(committed))
        /\ (CommittedBlob(committed) = Absent /\ CommittedBlob(committed') # Absent =>
              /\ call = "mirror"
              /\ pc = "commit"
              /\ CommittedBlob(committed') = Present([version |-> "MIRROR_v1", schema |-> stringifySchema(schema)]))
      ]_vars

\* a run with another schema has ended in the mismatch error on a database whose
\* blob was committed by an earlier run
MetaWriteOnceWitness ==
    /\ MirrorDone
    /\ outcome = Threw(ErrMismatch)
    /\ Len(schema) = 2
    /\ CommittedBlob(committed) # Absent
    /\ CommittedBlob(committed) # Present(MetaBlob(schema))

----------------------------------------------------------------------------
(* Properties of the layout that the Mirror constructor leaves on a fresh  *)
(* database (specification Spec).                                          *)

\* the Mirror constructor has just succeeded on a database that was empty
FreshSuccess ==
    /\ MirrorDone
    /\ pre.committed = EmptyDb
    /\ pre.working = EmptyDb
    /\ outcome = Returned(Undefined)

\* the names of the PRIMITIVE fields of `fields`, in the order of the fields
PrimitiveNamesInOrder(fields) ==
    LET prim == SelectSeq(fields, LAMBDA f : f.value.type = "PRIMITIVE") IN
    [i \in 1..Len(prim) |-> prim[i].name]

\* C11 (column presence): after the Mirror constructor has succeeded on a fresh
\* database, every object type T of the schema has its table primitives_T, and
\* the columns of that table are id followed by the names of the PRIMITIVE
\* fields of T and nothing else: no column for an ID, NODE or CONNECTION field.
ColumnPresence ==
    FreshSuccess =>
        \A i \in 1..Len(schema) :
            schema[i].value.type = "OBJECT" =>
                /\ TableExists(committed, <<"primitives_">> \o schema[i].name)
                /\ committed.tables[<<"primitives_">> \o schema[i].name].cols
                       = <<NameId>> \o PrimitiveNamesInOrder(schema[i].value.fields)

\* the table of an object type with a NODE, an ID, a CONNECTION and a PRIMITIVE
\* field has been committed with the columns id and t
ColumnPresenceWitness ==
    /\ FreshSuccess
    /\ \E i \in 1..Len(schema) :
         /\ schema[i].value.type = "OBJECT"
         /\ {"NODE", "CONNECTION", "ID", "PRIMITIVE"}
               \subseteq { schema[i].value.fields[k].value.type : k \in 1..Len(schema[i].value.fields) }
         /\ committed.tables[<<"primitives_">> \o schema[i].name].cols = <<NameId, NameT>>

\* the tables whose name starts with primitives_
PrimitivesTables(db) == { n \in DOMAIN db.tables : Len(n) >= 1 /\ n[1] = "primitives_" }

StructuralTableNames ==
    {<<"meta">>, <<"updates">>, <<"objects">>, <<"links">>, <<"connections">>, <<"connection_entries">>}

\* the statements of the log that are CREATE TABLE or CREATE INDEX statements
DdlKinds == {"CREATE TABLE IF NOT EXISTS", "CREATE TABLE", "CREATE INDEX"}
DdlStatements(log) == SelectSeq(log, LAMBDA q : q.kind \in DdlKinds)

\* C12 (tables follow object types only): after the Mirror constructor has
\* succeeded on a fresh database, the primitives_* tables are exactly the
\* tables primitives_T of the OBJECT types T of the schema; the other tables are
\* meta, updates, objects, links, connections and connection_entries; and the
\* DDL statements run are those of meta, of the eight structural statements and
\* one per object type, so a UNION type has no table and no statement.
TablesFollowObjectTypes ==
    FreshSuccess =>
        /\ PrimitivesTables(committed) = { <<"primitives_">> \o t : t \in ObjectTypeNames(schema) }
        /\ DOMAIN committed.tables \ PrimitivesTables(committed) = StructuralTableNames
        /\ committed.indices = LayoutIndices
        /\ Len(DdlStatements(fnLog.stmts)) = 9 + Cardinality(ObjectTypeNames(schema))

\* a schema with a union type before an object type: the object type has its
\* table, the union has none
TablesFollowObjectTypesWitness ==
    /\ FreshSuccess
    /\ Len(schema) = 2
    /\ schema[1].value.type = "UNION"
    /\ schema[2].value.type = "OBJECT"
    /\ TableExists(committed, <<"primitives_">> \o schema[2].name)
    /\ ~TableExists(committed, <<"primitives_">> \o schema[1].name)
    /\ Cardinality(DOMAIN committed.tables) = 7

----------------------------------------------------------------------------
(* Properties of the arguments of the Mirror constructor (Spec).           *)

\* C13 (argument-null): when the Mirror constructor is called with db null or
\* undefined, or with schema null or undefined, it throws at once: the error is
\* the one of db when db is absent (schema absent or not) and the one of schema
\* otherwise; no statement was run, no BEGIN was issued, the database and the
\* connection are as they were, and no SchemaInfo was computed or stored.
ArgumentNull ==
    (pc = "done" /\ call = "mirror" /\ (pre.dbNull \/ pre.schemaNull)) =>
        /\ outcome = (IF pre.dbNull THEN Threw(ErrDbNull) ELSE Threw(ErrSchemaNull))
        /\ fnLog.stmts = <<>>
        /\ issued = <<>>
        /\ DbUnchanged
        /\ schema = <<>>
        /\ schemaInfo = NoInfo

\* the constructor has refused a call with both arguments absent, made on an
\* initialized database with a row pending in an open transaction
ArgumentNullWitness ==
    /\ pc = "done"
    /\ call = "mirror"
    /\ pre.dbNull
    /\ pre.schemaNull
    /\ outcome = Threw(ErrDbNull)
    /\ inTransaction
    /\ ClientRows(working) # ClientRows(committed)

----------------------------------------------------------------------------
(* Properties of the statements that a run of Mirror._initialize hands to  *)
(* the engine (specification Spec).                                        *)

\* a run of the Mirror constructor, made outside a transaction on a database
\* whose meta row holds the blob of the schema given
Reopening ==
    /\ call = "mirror"
    /\ ~pre.dbNull /\ ~pre.schemaNull
    /\ ~pre.inTransaction
    /\ MetaRows(pre.working) = {MetaRow(MetaBlob(schema))}

\* seq is the beginning of full
IsPrefix(seq, full) == Len(seq) <= Len(full) /\ \A i \in 1..Len(seq) : seq[i] = full[i]

\* the two statements of a run that finds its own blob
ReopenStatements ==
    << Sql("CREATE TABLE IF NOT EXISTS", MetaTable, MetaColumns),
       Sql("SELECT", MetaTable, <<<<"schema">>>>) >>

\* C14 as stated (re-open performs no DDL): in a run on a database whose meta
\* row already holds the blob of the given schema, no CREATE TABLE or CREATE
\* INDEX statement is handed to the engine.
ReopenNoDdlAsStated ==
    Reopening => DdlStatements(fnLog.stmts) = <<>>

\* C14 as amended: in a run on a database whose meta row already holds the blob
\* of the given schema, the only statements handed to the engine are CREATE
\* TABLE IF NOT EXISTS meta, which finds the table and changes nothing, and the
\* SELECT of the blob; no other CREATE TABLE and no CREATE INDEX is issued, the
\* database is the same at every point of the run, and the run returns.
ReopenNoDdl ==
    Reopening =>
        /\ IsPrefix(fnLog.stmts, ReopenStatements)
        /\ working = pre.working
        /\ committed = pre.committed
        /\ (pc = "done" => outcome = Returned(Undefined) /\ fnLog.stmts = ReopenStatements)

\* a run with a two-type schema has returned after its two statements, on a
\* database that holds a row in objects
ReopenNoDdlWitness ==
    /\ Reopening
    /\ pc = "done"
    /\ Len(schema) = 2
    /\ ObjectTypeNames(schema) # {}
    /\ fnLog.stmts = ReopenStatements
    /\ ClientRows(committed) # {}
    /\ outcome = Returned(Undefined)

\* the statements of a run on a fresh database up to the INSERT of the blob
MetaStatements ==
    << Sql("CREATE TABLE IF NOT EXISTS", MetaTable, MetaColumns),
       Sql("SELECT", MetaTable, <<<<"schema">>>>),
       Sql("INSERT", MetaTable, MetaColumns) >>

\* the eight statements of section 3, in the order of the specification
StructuralStatements ==
    << Sql("CREATE TABLE", <<"updates">>, <<<<"rowid">>, <<"time_epoch_millis">>>>),
       Sql("CREATE TABLE", <<"objects">>, <<<<"i", "d">>, <<"typename">>, <<"last_update">>>>),
       Sql("CREATE TABLE", <<"links">>, <<<<"rowid">>, <<"parent_id">>, <<"fieldname">>, <<"child_id">>>>),
       Sql("CREATE INDEX", <<"idx_links__parent_id__fieldname">>, <<<<"links">>>>),
       Sql("CREATE TABLE", <<"connections">>,
           <<<<"rowid">>, <<"object_id">>, <<"fieldname">>, <<"last_update">>,
             <<"total_count">>, <<"has_next_page">>, <<"end_cursor">>>>),
       Sql("CREATE INDEX", <<"idx_connections__object_id__fieldname">>, <<<<"connections">>>>),
       Sql("CREATE TABLE", <<"connection_entries">>,
           <<<<"rowid">>, <<"connection_id">>, <<"idx">>, <<"child_id">>>>),
       Sql("CREATE INDEX", <<"idx_connection_entries__connection_id">>, <<<<"connection_entries">>>>) >>

\* the CREATE TABLE statements of the object types among the first k types of s
PrimitivesStatements(s, k) ==
    LET objs == SelectSeq(SubSeq(s, 1, k), LAMBDA t : t.value.type = "OBJECT") IN
    [i \in 1..Len(objs) |->
        Sql("CREATE TABLE", <<"primitives_">> \o objs[i].name,
            <<NameId>> \o PrimitiveNamesInOrder(objs[i].value.fields))]

\* the names that a CREATE TABLE primitives_T statement has from the schema:
\* T and the columns after id
InterpolatedNames(stmt) == {Tail(stmt.name)} \cup Range(Tail(stmt.cols))

\* the CREATE TABLE primitives_* statements of a log
PrimitivesCreates(log) ==
    { log[i] : i \in { j \in 1..Len(log) : log[j].kind = "CREATE TABLE" /\ log[j].name[1] = "primitives_" } }

\* the constructor has ended with the error of an identifier check
IdentifierError == MirrorDone /\ outcome \in {Threw(ErrTypeName), Threw(ErrFieldName)}

\* C15 as stated (identifier check precedes SQL): when the Mirror constructor
\* raises the error of an unsafe object typename or primitive field name, no
\* SQL statement has been executed by initialize before the error.
IdentifierCheckFirstAsStated ==
    IdentifierError => fnLog.stmts = <<>>

\* C15 as amended: no CREATE TABLE statement that holds an unsafe name is ever
\* handed to the engine; when the error of an unsafe name of the type at
\* position idx is raised, the statements of meta, the eight structural
\* statements and the CREATE TABLE of every object type before that position
\* have been executed, none for that type or a later one, and all of it has
\* been rolled back.
IdentifierCheckFirst ==
    /\ \A q \in PrimitivesCreates(fnLog.stmts) : \A n \in InterpolatedNames(q) : ~HasUnsafeCharacter(n)
    /\ IdentifierError =>
          /\ fnLog.stmts = MetaStatements \o StructuralStatements \o PrimitivesStatements(schema, idx - 1)
          /\ schema[idx].value.type = "OBJECT"
          /\ \E n \in IdentifierNames(<<schema[idx]>>) : HasUnsafeCharacter(n)
          /\ committed = EmptyDb
          /\ working = EmptyDb

\* the error of an unsafe field name of the second type has been raised after
\* twelve statements, the CREATE TABLE of the first type among them
IdentifierCheckFirstWitness ==
    /\ IdentifierError
    /\ outcome = Threw(ErrFieldName)
    /\ idx = 2
    /\ Len(fnLog.stmts) = 12
    /\ PrimitivesCreates(fnLog.stmts) # {}
    /\ "ROLLBACK" \in Range(issued)
    /\ committed = EmptyDb

\* a run of the Mirror constructor, made outside a transaction on a fresh database
FreshRun ==
    /\ call = "mirror"
    /\ ~pre.dbNull /\ ~pre.schemaNull
    /\ ~pre.inTransaction
    /\ pre.working = EmptyDb

\* the statements of a log that write: all but the SELECT
WritingStatements(log) == SelectSeq(log, LAMBDA q : q.kind # "SELECT")

\* the tables created by the first k statements of a log
CreatedBefore(log, k) ==
    { log[j].name : j \in { i \in 1..k : log[i].kind \in {"CREATE TABLE", "CREATE TABLE IF NOT EXISTS"} } }

\* C17 (DDL order): at every point of a run on a fresh database, the writing
\* statements executed so far are the beginning of this sequence: create meta,
\* insert the meta row, updates, objects, links, the index on links,
\* connections, the index on connections, connection_entries, the index on
\* connection_entries, then the primitives tables of the object types; and
\* every table named in a FOREIGN KEY clause of a CREATE TABLE was created by
\* an earlier statement.
StatementOrder ==
    FreshRun =>
        /\ IsPrefix(WritingStatements(fnLog.stmts),
                    <<MetaStatements[1], MetaStatements[3]>> \o StructuralStatements
                        \o PrimitivesStatements(schema, Len(schema)))
        /\ \A k \in 1..Len(fnLog.stmts) :
              fnLog.stmts[k].kind = "CREATE TABLE" =>
                  ForeignKeyTargets(fnLog.stmts[k].name) \subseteq CreatedBefore(fnLog.stmts, k - 1)

\* a run with two object types has committed after its thirteen statements,
\* the two primitives tables last
StatementOrderWitness ==
    /\ FreshRun
    /\ FreshSuccess
    /\ Len(schema) = 2
    /\ Len(fnLog.stmts) = 13
    /\ fnLog.stmts[12].name = <<"primitives_">> \o schema[1].name
    /\ fnLog.stmts[13].name = <<"primitives_">> \o schema[2].name
    /\ fnLog.stmts[11].name = <<"idx_connection_entries__connection_id">>

----------------------------------------------------------------------------
(* Properties of the metadata blob (specification Spec).                   *)

\* two JavaScript objects with the same keys and, key by key, the same values
\* up to Equivalent
SameUpToOrder(a, b, Equivalent(_, _)) ==
    /\ Len(a) = Len(b)
    /\ KeySet(a) = KeySet(b)
    /\ \A i \in 1..Len(a), j \in 1..Len(b) : a[i].name = b[j].name => Equivalent(a[i].value, b[j].value)

\* two types that differ at most in the order of their fields or clauses
TypeReordering(t, u) ==
    /\ t.type = u.type
    /\ IF t.type = "OBJECT"
       THEN SameUpToOrder(t.fields, u.fields, LAMBDA f, g : f = g)
       ELSE SameUpToOrder(t.clauses, u.clauses, LAMBDA f, g : f = g)

\* two schemas that differ at most in the order of their keys
KeyReordering(s, t) == SameUpToOrder(s, t, TypeReordering)

\* C16 (canonical blob): when the Mirror constructor is run with schema S' on
\* a database initialized with a schema S that differs from S' only in the
\* order of its type names, field names or clause names (the schema of the
\* stored blob is then a reordering of S'), the blobs are equal: the run
\* returns without the mismatch error and leaves the database as it was.
CanonicalBlob ==
    (MirrorDone /\ ~pre.inTransaction
       /\ \E r \in MetaRows(pre.working) : r.schema.version = "MIRROR_v1" /\ KeyReordering(r.schema.schema, schema)) =>
        /\ outcome = Returned(Undefined)
        /\ DbUnchanged

\* a run whose schema lists D before another type, with D's fields in the
\* order id, t, c, has returned on a database whose table primitives_D has the
\* columns id, c, t: the database was initialized with the fields in the order
\* c, t, id
CanonicalBlobWitness ==
    /\ MirrorDone
    /\ ~pre.inTransaction
    /\ outcome = Returned(Undefined)
    /\ Len(schema) = 2
    /\ schema[1].name = NameD
    /\ ObjectKeys(schema[1].value.fields) = <<NameId, NameT, NameCn>>
    /\ TableExists(pre.committed, <<"primitives_">> \o NameD)
    /\ pre.committed.tables[<<"primitives_">> \o NameD].cols = <<NameId, NameCn, NameT>>
    /\ committed = pre.committed

----------------------------------------------------------------------------
(* The handle and the layout.                                              *)

\* the Mirror constructor has returned
MirrorConstructed == MirrorDone /\ outcome = Returned(Undefined)

\* the columns of primitives_T other than id, in the order of the table
ColumnsOtherThanId(db, typename) ==
    SelectSeq(db.tables[<<"primitives_">> \o typename].cols, LAMBDA c : c # NameId)

\* C25 as stated (handle and layout agree): after any successful Mirror
\* construction, on a fresh database or on a re-opened one, for every object
\* type T the columns of primitives_T other than id are the same names, in the
\* same order, as primitiveFieldNames of T in the handle's SchemaInfo.
HandleAndLayoutAgreeAsStated ==
    MirrorConstructed =>
        \A k \in 1..Len(schemaInfo.objectTypes) :
            /\ TableExists(committed, <<"primitives_">> \o schemaInfo.objectTypes[k].name)
            /\ ColumnsOtherThanId(committed, schemaInfo.objectTypes[k].name)
                   = schemaInfo.objectTypes[k].value.primitiveFieldNames

\* C25 (handle and layout agree): after any successful Mirror construction,
\* for every object type T the columns of primitives_T other than id are the
\* same names as primitiveFieldNames of T in the handle's SchemaInfo, each
\* once; on a fresh database they are in the same order too, and on a re-opened
\* one the columns are those the table had before the call.
HandleAndLayoutAgree ==
    MirrorConstructed =>
        \A k \in 1..Len(schemaInfo.objectTypes) :
            LET T == schemaInfo.objectTypes[k].name
                names == schemaInfo.objectTypes[k].value.primitiveFieldNames IN
            /\ TableExists(committed, <<"primitives_">> \o T)
            /\ Range(ColumnsOtherThanId(committed, T)) = Range(names)
            /\ Len(ColumnsOtherThanId(committed, T)) = Len(names)
            /\ NoDuplicates(names)
            /\ (MetaRows(pre.committed) = {} => ColumnsOtherThanId(committed, T) = names)
            /\ (MetaRows(pre.committed) # {} =>
                    /\ TableExists(pre.committed, <<"primitives_">> \o T)
                    /\ committed.tables[<<"primitives_">> \o T].cols
                           = pre.committed.tables[<<"primitives_">> \o T].cols)

\* a re-open with the fields of D in the order id, t, c of a database
\* initialized with the order c, t, id: the columns are c, t and the handle's
\* primitiveFieldNames are t, c
HandleAndLayoutAgreeWitness ==
    /\ MirrorConstructed
    /\ MetaRows(pre.committed) # {}
    /\ \E k \in 1..Len(schemaInfo.objectTypes) :
         /\ schemaInfo.objectTypes[k].name = NameD
         /\ schemaInfo.objectTypes[k].value.primitiveFieldNames = <<NameT, NameCn>>
         /\ ColumnsOtherThanId(committed, NameD) = <<NameCn, NameT>>

----------------------------------------------------------------------------
(* isSqlSafe on any name: the caller writes a name, one character at a     *)
(* time, as the name of an object type or as the name of a primitive       *)
(* field, and hands the schema to the Mirror constructor.                  *)

\* the characters the caller writes: letters, a digit, the underscore, and two
\* characters outside the class
TokenChars == {"A", "a", "7", "_", "-", ";"}

\* the schema with the name still empty: as a type name, as a field name
TokenAsTypename == <<Prop(<<>>, ObjectType(<<Prop(NameId, IdField)>>))>>
TokenAsFieldname == <<Prop(NameA, ObjectType(<<Prop(NameId, IdField), Prop(<<>>, PrimitiveField)>>))>>

\* the name the caller has written
Token(s) == IF Len(s[1].value.fields) = 1 THEN s[1].name ELSE s[1].value.fields[2].name

\* the schema with one more character in the name
WithChar(s, c) ==
    IF Len(s[1].value.fields) = 1
    THEN <<Prop(Append(s[1].name, c), s[1].value)>>
    ELSE <<Prop(s[1].name, ObjectType(<<s[1].value.fields[1],
                                        Prop(Append(s[1].value.fields[2].name, c), PrimitiveField)>>))>>

InitToken ==
    /\ schema \in {TokenAsTypename, TokenAsFieldname}
    /\ committed = EmptyDb
    /\ working = EmptyDb
    /\ inTransaction = FALSE
    /\ pc = "idle"
    /\ call = "none"
    /\ schemaInfo = NoInfo
    /\ idx = 0
    /\ fnLog = NoFnLog
    /\ issued = <<>>
    /\ outcome = NoOutcome
    /\ pre = NoPre

\* the caller writes one more character of the name
TypeChar ==
    /\ pc = "idle"
    /\ Len(schema) = 1
    /\ Len(Token(schema)) < MaxTokenLen
    /\ \E c \in TokenChars : schema' = WithChar(schema, c)
    /\ UNCHANGED <<committed, working, inTransaction, pc, call, schemaInfo, idx, fnLog, issued, outcome, pre>>

\* new Mirror(db, schema) with the schema that holds the name
NewMirrorOfToken ==
    /\ Len(schema) = 1
    /\ NewMirror(Present("db"), Present(schema))

NextToken ==
    \/ TypeChar
    \/ NewMirrorOfToken
    \/ CreateMeta
    \/ SelectMeta
    \/ InsertMeta
    \/ Structural
    \/ Types
    \/ TypesDone
    \/ Commit
    \/ Finally
    \/ Return

SpecToken == InitToken /\ [][NextToken]_vars

\* the run has got to the isSqlSafe check of the name: it has ended with the
\* error of the check, or the CREATE TABLE of the type has been handed to the
\* engine as the twelfth statement
TokenChecked == IdentifierError \/ (MirrorDone /\ Len(fnLog.stmts) = 12)

\* isSqlSafe returned true for the name
TokenAccepted == MirrorDone /\ Len(fnLog.stmts) = 12

\* the name matches ^[A-Za-z0-9_]*$
MatchesIdentifierPatternOrEmpty(name) == \A i \in 1..Len(name) : name[i] \in SqlSafeChars

----------------------------------------------------------------------------
(* Rows after initialization.                                              *)

\* the rows of the tables of db other than meta
DataRows(db) == UNION { db.tables[n].rows : n \in DOMAIN db.tables \ {MetaTable} }

\* the INSERT statements of a log
InsertStatements(log) == SelectSeq(log, LAMBDA q : q.kind = "INSERT")

\* C22 (initialization inserts no data rows): after the Mirror constructor has
\* succeeded on a fresh database, the tables updates, objects, links,
\* connections, connection_entries and every primitives_T are there and empty,
\* and the only row written is the one row of meta, with zero = 0 and the blob
\* of the schema: one INSERT statement was run, into meta.
NoDataRows ==
    FreshSuccess =>
        /\ \A n \in (StructuralTableNames \ {MetaTable})
                      \cup { <<"primitives_">> \o t : t \in ObjectTypeNames(schema) } :
              TableExists(committed, n) /\ committed.tables[n].rows = {}
        /\ DataRows(committed) = {}
        /\ MetaRows(committed) = {[key |-> 0, schema |-> MetaBlob(schema)]}
        /\ InsertStatements(fnLog.stmts) = <<Sql("INSERT", MetaTable, MetaColumns)>>

\* a fresh database initialized for a schema with two object types: seven
\* empty tables and meta with its row
NoDataRowsWitness ==
    /\ FreshSuccess
    /\ Cardinality(ObjectTypeNames(schema)) = 2
    /\ Cardinality(DOMAIN committed.tables) = 8
    /\ DataRows(committed) = {}
    /\ Cardinality(MetaRows(committed)) = 1

----------------------------------------------------------------------------
(* The Mirror constructor on a database that is not empty and was not      *)
(* initialized by a Mirror: it holds a table or an index of another owner  *)
(* under a name that the layout uses.                                      *)

\* a table of another owner
ForeignTable == [cols |-> <<<<"x">>>>, rows |-> {}]

\* the databases of another owner: a table objects, a table links, an index
\* with the name of the index on connections, a table primitives_A
ForeignDbs ==
    { [tables |-> (<<"objects">> :> ForeignTable), indices |-> {}],
      [tables |-> (<<"links">> :> ForeignTable), indices |-> {}],
      [tables |-> (<<"foreign">> :> ForeignTable), indices |-> {<<"idx_connections__object_id__fieldname">>}],
      [tables |-> ((<<"primitives_">> \o NameA) :> ForeignTable), indices |-> {}] }

InitForeign ==
    /\ committed \in ForeignDbs
    /\ working = committed
    /\ inTransaction = FALSE
    /\ pc = "idle"
    /\ call = "none"
    /\ schema = <<>>
    /\ schemaInfo = NoInfo
    /\ idx = 0
    /\ fnLog = NoFnLog
    /\ issued = <<>>
    /\ outcome = NoOutcome
    /\ pre = NoPre

SpecForeign == InitForeign /\ [][Next]_vars

\* the names of the tables and indices that a run with schema s creates
CreatedNames(s) == LayoutTables(s) \cup LayoutIndices

\* the names of the tables and indices of a database
NamesOf(db) == DOMAIN db.tables \cup db.indices

\* a run of the Mirror constructor, made outside a transaction on a database
\* without meta table that holds something under a name of the layout, has ended
ConflictingRunDone ==
    /\ MirrorDone
    /\ ~pre.inTransaction
    /\ ~TableExists(pre.working, MetaTable)
    /\ NamesOf(pre.working) \cap CreatedNames(schema) # {}

\* C21 (engine error on a non-empty, uninitialized database): when the Mirror
\* constructor is run on a database that has no meta row and holds a table or an
\* index under a name of the layout, the call fails: with the engine's error of
\* the CREATE statement when the name is one of the structural statements or
\* when every name of the schema is safe; the connection is not in a
\* transaction, and the database is as it was: the tables and rows that were
\* there are intact, and neither meta nor any table or index created earlier in
\* the run remains.
EngineErrorOnForeignDb ==
    ConflictingRunDone =>
        /\ outcome.kind = "error"
        /\ ((NamesOf(pre.working) \cap (StructuralTableNames \cup LayoutIndices) # {}
              \/ \A n \in IdentifierNames(schema) : ~HasUnsafeCharacter(n))
             => outcome = Threw(ErrEngine))
        /\ ~inTransaction
        /\ committed = pre.committed
        /\ working = pre.committed
        /\ ~TableExists(committed, MetaTable)
        /\ NamesOf(committed) = NamesOf(pre.committed)

\* CREATE TABLE objects has failed on a database that holds a table objects
\* with a row: meta, its row and updates, created earlier in the run, are gone,
\* the row is still there
EngineErrorOnForeignDbWitness ==
    /\ ConflictingRunDone
    /\ outcome = Threw(ErrEngine)
    /\ Len(fnLog.stmts) = 5
    /\ fnLog.stmts[5].name = <<"objects">>
    /\ issued = <<"BEGIN", "ROLLBACK">>
    /\ ClientRows(pre.committed) # {}
    /\ ClientRows(committed) = ClientRows(pre.committed)
    /\ DOMAIN committed.tables = {<<"objects">>}

----------------------------------------------------------------------------
(* The table connections under its declared constraints: the owner of the  *)
(* database inserts and updates rows, and the engine accepts a statement   *)
(* when the NOT NULL, CHECK, UNIQUE and PRIMARY KEY clauses of the CREATE  *)
(* TABLE statement do, each statement in its own transaction.  The        *)
(* FOREIGN KEY clauses, where the engine enforces them, only refuse more   *)
(* statements.                                                             *)

ConnectionsTable == <<"connections">>

\* a column value: NULL or a value
Null == <<>>
Value(v) == <<v>>

\* the values a statement may give to each column
ConnectionColumns ==
    [object_id : {Null, Value("o1"), Value("o2")},
     fieldname : {Null, Value("f"), Value("g")},
     last_update : {Null, Value(1)},
     total_count : {Null, Value(0)},
     has_next_page : {Null, Value(FALSE)},
     end_cursor : {Null, Value("cursor")}]

\* x IS NULL, a = b and a <= b as SQL computes them: 1 or 0
IsNull(v) == IF v = Null THEN 1 ELSE 0
SqlEq(a, b) == IF a = b THEN 1 ELSE 0
SqlLe(a, b) == IF a <= b THEN 1 ELSE 0

\* a CHECK constraint fails when its expression is 0
CheckFails(v) == v = 0

\* the three CHECK clauses with the last one turned around:
\* CHECK((last_update IS NULL) >= (end_cursor IS NULL))
ConnectionChecksReversed(row) ==
    /\ ~CheckFails(SqlEq(IsNull(row.last_update), IsNull(row.total_count)))
    /\ ~CheckFails(SqlEq(IsNull(row.last_update), IsNull(row.has_next_page)))
    /\ ~CheckFails(SqlLe(IsNull(row.end_cursor), IsNull(row.last_update)))

\* the three CHECK clauses of connections
ConnectionChecks(row) ==
    /\ ~CheckFails(SqlEq(IsNull(row.last_update), IsNull(row.total_count)))
    /\ ~CheckFails(SqlEq(IsNull(row.last_update), IsNull(row.has_next_page)))
    /\ ~CheckFails(SqlLe(IsNull(row.last_update), IsNull(row.end_cursor)))

\* object_id TEXT NOT NULL, fieldname TEXT NOT NULL
ConnectionNotNulls(row) == row.object_id # Null /\ row.fieldname # Null

\* rowid INTEGER PRIMARY KEY and UNIQUE(object_id, fieldname), against the
\* other rows of the table; a NULL is different from every value of a UNIQUE
\* column
ConnectionUniques(row, others) ==
    \A r \in others :
        /\ r.key # row.key
        /\ ~(/\ row.object_id # Null /\ row.fieldname # Null
             /\ r.object_id = row.object_id /\ r.fieldname = row.fieldname)

\* the engine accepts the row next to the other rows
ConnectionAccepted(row, others) ==
    ConnectionNotNulls(row) /\ ConnectionChecks(row) /\ ConnectionUniques(row, others)

ConnectionRows(db) == db.tables[ConnectionsTable].rows

ConnectionRow(rowid, c) ==
    [key |-> rowid, object_id |-> c.object_id, fieldname |-> c.fieldname, last_update |-> c.last_update,
     total_count |-> c.total_count, has_next_page |-> c.has_next_page, end_cursor |-> c.end_cursor]

InitConnections ==
    /\ committed = InitializedDb
    /\ working = InitializedDb
    /\ inTransaction = FALSE
    /\ pc = "idle"
    /\ call = "none"
    /\ schema = <<>>
    /\ schemaInfo = NoInfo
    /\ idx = 0
    /\ fnLog = NoFnLog
    /\ issued = <<>>
    /\ outcome = NoOutcome
    /\ pre = NoPre

\* INSERT INTO connections (...) VALUES (...): refused statements change nothing
InsertConnection ==
    /\ pc = "idle"
    /\ Cardinality(ConnectionRows(working)) < MaxConnections
    /\ \E rowid \in 1..MaxConnections, c \in ConnectionColumns :
         LET row == ConnectionRow(rowid, c) IN
         /\ ConnectionAccepted(row, ConnectionRows(working))
         /\ Write([working EXCEPT !.tables[ConnectionsTable].rows = @ \cup {row}])
    /\ UNCHANGED <<inTransaction, pc, call, schema, schemaInfo, idx, fnLog, issued, outcome, pre>>

\* UPDATE connections SET ... WHERE rowid = ?: refused statements change nothing
UpdateConnection ==
    /\ pc = "idle"
    /\ \E old \in ConnectionRows(working), c \in ConnectionColumns :
         LET row == ConnectionRow(old.key, c) IN
         /\ row # old
         /\ ConnectionAccepted(row, ConnectionRows(working) \ {old})
         /\ Write([working EXCEPT !.tables[ConnectionsTable].rows = (@ \ {old}) \cup {row}])
    /\ UNCHANGED <<inTransaction, pc, call, schema, schemaInfo, idx, fnLog, issued, outcome, pre>>

NextConnections == InsertConnection \/ UpdateConnection

SpecConnections == InitConnections /\ [][NextConnections]_vars

\* C24 (connections row constraints): in every state of the table connections
\* reached by accepted inserts and updates, each row has last_update NULL
\* exactly when total_count is NULL and exactly when has_next_page is NULL, a
\* row with last_update NULL has end_cursor NULL, and no two rows have the same
\* object_id and fieldname.
ConnectionsRowConstraints ==
    \A db \in {committed, working} :
        /\ \A r \in ConnectionRows(db) :
             /\ (r.last_update = Null) <=> (r.total_count = Null)
             /\ (r.last_update = Null) <=> (r.has_next_page = Null)
             /\ (r.last_update = Null) => (r.end_cursor = Null)
        /\ \A r1, r2 \in ConnectionRows(db) :
             (r1.object_id = r2.object_id /\ r1.fieldname = r2.fieldname) => r1 = r2

\* two rows, of two objects: one never updated, all four columns NULL, and one
\* updated to a last_update with a total_count, a has_next_page and the
\* end_cursor NULL
ConnectionsRowConstraintsWitness ==
    /\ Cardinality(ConnectionRows(committed)) = 2
    /\ \E r \in ConnectionRows(committed) :
         r.last_update = Null /\ r.total_count = Null /\ r.has_next_page = Null /\ r.end_cursor = Null
    /\ \E r \in ConnectionRows(committed) :
         r.last_update # Null /\ r.total_count # Null /\ r.has_next_page # Null /\ r.end_cursor = Null

----------------------------------------------------------------------------
(* identityNameFromString of the ledger: the caller writes a string, one   *)
(* character at a time, hands it to identityNameFromString, and hands a    *)
(* name it got back to identityNameFromString again.                       *)

UpperCase == <<"A", "B", "C", "D", "E", "F", "G", "H", "I", "J", "K", "L", "M",
               "N", "O", "P", "Q", "R", "S", "T", "U", "V", "W", "X", "Y", "Z">>
LowerCase == <<"a", "b", "c", "d", "e", "f", "g", "h", "i", "j", "k", "l", "m",
               "n", "o", "p", "q", "r", "s", "t", "u", "v", "w", "x", "y", "z">>

\* the character class [A-Za-z0-9-]
IdentityNameChars ==
    { UpperCase[i] : i \in 1..Len(UpperCase) } \cup { LowerCase[i] : i \in 1..Len(LowerCase) }
        \cup { Digits[i] : i \in 1..Len(Digits) } \cup {"-"}

\* identityName.match(/^[A-Za-z0-9-]+$/): one character or more, all of the
\* class, up to the end of the string
IDENTITY_NAME_PATTERN(identityName) ==
    /\ Len(identityName) >= 1
    /\ \A i \in 1..Len(identityName) : identityName[i] \in IdentityNameChars

\* String.prototype.toLowerCase, on the characters of the model
toLowerCaseChar(c) ==
    IF \E i \in 1..Len(UpperCase) : UpperCase[i] = c
    THEN LowerCase[CHOOSE i \in 1..Len(UpperCase) : UpperCase[i] = c]
    ELSE c
toLowerCase(str) == [i \in 1..Len(str) |-> toLowerCaseChar(str[i])]

\* new Error(`invalid identityName: ${identityName}`)
ErrIdentityName(identityName) == <<"invalid identityName: ", identityName>>

\* the function without the conversion to lower case
identityNameFromStringAsGiven(identityName) ==
    IF ~IDENTITY_NAME_PATTERN(identityName) THEN Threw(ErrIdentityName(identityName))
    ELSE Returned(identityName)

identityNameFromString(identityName) ==
    IF ~IDENTITY_NAME_PATTERN(identityName) THEN Threw(ErrIdentityName(identityName))
    ELSE Returned(toLowerCase(identityName))

\* the characters the caller writes: letters of both cases, a digit, the
\* hyphen, and an underscore and a line feed, which are outside the class
IdentityChars == {"A", "a", "Z", "z", "7", "-", "_", "\n"}

\* the call being written: the function and its argument
IdentityCall(identityName) == [fn |-> "identityNameFromString", identityName |-> identityName]

InitIdentity ==
    /\ call = IdentityCall(<<>>)
    /\ pc = "idle"
    /\ outcome = NoOutcome
    /\ committed = EmptyDb
    /\ working = EmptyDb
    /\ inTransaction = FALSE
    /\ schema = <<>>
    /\ schemaInfo = NoInfo
    /\ idx = 0
    /\ fnLog = NoFnLog
    /\ issued = <<>>
    /\ pre = NoPre

\* the caller writes one more character of the string
TypeIdentityChar ==
    /\ pc = "idle"
    /\ Len(call.identityName) < MaxNameLen
    /\ \E c \in IdentityChars : call' = IdentityCall(Append(call.identityName, c))
    /\ UNCHANGED <<committed, working, inTransaction, pc, schema, schemaInfo, idx, fnLog, issued, outcome, pre>>

\* identityNameFromString(identityName)
CallIdentityNameFromString ==
    /\ pc = "idle"
    /\ outcome' = identityNameFromString(call.identityName)
    /\ pc' = "done"
    /\ UNCHANGED <<committed, working, inTransaction, call, schema, schemaInfo, idx, fnLog, issued, pre>>

\* identityNameFromString(name) of a name that identityNameFromString returned
ReapplyIdentityNameFromString ==
    /\ pc = "done"
    /\ outcome.kind = "value"
    /\ call' = IdentityCall(outcome.val)
    /\ outcome' = identityNameFromString(outcome.val)
    /\ pc' = "again"
    /\ UNCHANGED <<committed, working, inTransaction, schema, schemaInfo, idx, fnLog, issued, pre>>

NextIdentity == TypeIdentityChar \/ CallIdentityNameFromString \/ ReapplyIdentityNameFromString

SpecIdentity == InitIdentity /\ [][NextIdentity]_vars

\* identityNameFromString has been called with call.identityName
IdentityCalled == pc \in {"done", "again"}

\* name is str with every upper-case letter replaced by its lower-case letter
LowerCaseOf(name, str) ==
    /\ Len(name) = Len(str)
    /\ \A i \in 1..Len(str) :
         /\ (str[i] \notin Range(UpperCase) => name[i] = str[i])
         /\ \A k \in 1..Len(UpperCase) : str[i] = UpperCase[k] => name[i] = LowerCase[k]

\* C26 (identity names): identityNameFromString(s) throws "invalid
\* identityName" when s does not match ^[A-Za-z0-9-]+$ and otherwise returns s
\* in lower case; a returned name has no upper-case letter, matches the pattern
\* and is a fixed point: applying the function to it returns it unchanged.
IdentityNames ==
    IdentityCalled =>
        /\ ~IDENTITY_NAME_PATTERN(call.identityName) =>
              /\ outcome.kind = "error"
              /\ outcome.val[1] = "invalid identityName: "
        /\ IDENTITY_NAME_PATTERN(call.identityName) =>
              /\ outcome.kind = "value"
              /\ LowerCaseOf(outcome.val, call.identityName)
              /\ Range(outcome.val) \cap Range(UpperCase) = {}
              /\ IDENTITY_NAME_PATTERN(outcome.val)
              /\ identityNameFromString(outcome.val) = Returned(outcome.val)
        /\ pc = "again" => outcome = Returned(call.identityName)

\* AZ went in and az came out
IdentityNamesWitness ==
    /\ pc = "done"
    /\ call.identityName = <<"A", "Z">>
    /\ outcome = Returned(<<"a", "z">>)

----------------------------------------------------------------------------
(* Properties of _inTransaction (specification SpecTxn).                   *)

\* a call of _inTransaction, made outside a transaction, has just ended
TxnDone == pc = "done" /\ call = "txn" /\ ~pre.inTransaction

\* C5 (transaction wrapper, throwing callback): when the callback throws,
\* _inTransaction, called outside a transaction, ends with the connection not
\* in a transaction, and its caller gets the error the callback threw.
ThrowingCallback ==
    (TxnDone /\ fnLog.end = "threw") =>
        /\ ~inTransaction
        /\ outcome = Threw(fnLog.val)

\* the callback has written a row and thrown; _inTransaction has rolled the
\* transaction back and rethrown
ThrowingCallbackWitness ==
    /\ TxnDone
    /\ fnLog.end = "threw"
    /\ fnLog.val = ErrFn
    /\ fnLog.writes # {}
    /\ issued = <<"BEGIN", "ROLLBACK">>
    /\ outcome = Threw(ErrFn)
    /\ ~inTransaction
    /\ fnLog.writes \cap ClientRows(working) = {}

\* C6 as stated (transaction wrapper, normal return), for the runs in which no
\* statement of _inTransaction fails: when the callback returns normally,
\* _inTransaction returns the callback's value and every change the callback
\* made is durable.
ReturningCallbackAsStated ==
    (TxnDone /\ fnLog.end = "returned" /\ outcome # Threw(ErrEngine)) =>
        /\ outcome = Returned(fnLog.val)
        /\ fnLog.writes \subseteq ClientRows(committed)

\* C6 as amended: when the callback returns normally, _inTransaction returns
\* the callback's value, unless the COMMIT it issues fails (the transaction is
\* then rolled back, by the engine or by the ROLLBACK of the finally block, and
\* the engine's error is thrown); when it returns, the connection is not in a
\* transaction, nothing is pending, and every change the callback made and did
\* not roll back itself is durable.
ReturningCallback ==
    (TxnDone /\ fnLog.end = "returned") =>
        /\ \/ outcome = Returned(fnLog.val)
           \/ /\ outcome = Threw(ErrEngine)
              /\ issued \in {<<"BEGIN", "COMMIT", "ROLLBACK">>, <<"BEGIN", "COMMIT">>}
              /\ working = committed
              /\ ~inTransaction
        /\ outcome.kind = "value" =>
              /\ (fnLog.writes \ fnLog.undone) \subseteq ClientRows(committed)
              /\ working = committed
              /\ ~inTransaction

\* the callback has written a row and returned v1; _inTransaction has committed
\* and returned v1
ReturningCallbackWitness ==
    /\ TxnDone
    /\ fnLog.end = "returned"
    /\ fnLog.writes # {}
    /\ fnLog.undone = {}
    /\ issued = <<"BEGIN", "COMMIT">>
    /\ outcome = Returned("v1")
    /\ fnLog.writes \subseteq ClientRows(committed)
    /\ ~(fnLog.writes \subseteq ClientRows(pre.committed))

\* C7 (transaction wrapper precondition): when _inTransaction is called inside
\* a transaction, it throws "already in transaction"; the callback has not run,
\* no BEGIN, COMMIT or ROLLBACK was issued, and the transaction is still open
\* with its pending changes.
AlreadyInTransaction ==
    (pc = "done" /\ pre.inTransaction) =>
        /\ outcome = Threw(ErrAlreadyInTransaction)
        /\ fnLog = NoFnLog
        /\ issued = <<>>
        /\ inTransaction
        /\ working = pre.working
        /\ committed = pre.committed

\* _inTransaction has refused a call made with a row pending in an open transaction
AlreadyInTransactionWitness ==
    /\ pc = "done"
    /\ call = "txn"
    /\ pre.inTransaction
    /\ inTransaction
    /\ ClientRows(working) # ClientRows(committed)
    /\ outcome = Threw(ErrAlreadyInTransaction)

\* C19 (final-state rule): whatever the callback did (statements of its own,
\* COMMIT, ROLLBACK and BEGIN among them, then a return or a throw), a call of
\* _inTransaction made outside a transaction ends with the connection not in a
\* transaction; it has issued BEGIN first; it has issued COMMIT exactly when
\* the callback returned with a transaction open; it has issued ROLLBACK only
\* when a transaction was open at the end of the callback and the callback
\* threw or the COMMIT failed, and always when the callback threw with a
\* transaction open; and it has issued neither when the callback left no
\* transaction open.
FinalStateRule ==
    TxnDone =>
        /\ ~inTransaction
        /\ Len(issued) \in 1..3
        /\ issued[1] = "BEGIN"
        /\ "COMMIT" \in Range(issued) <=> (fnLog.end = "returned" /\ fnLog.open)
        /\ "ROLLBACK" \in Range(issued) =>
              /\ fnLog.open
              /\ fnLog.end = "threw" \/ outcome = Threw(ErrEngine)
        /\ (fnLog.end = "threw" /\ fnLog.open) => issued = <<"BEGIN", "ROLLBACK">>
        /\ ~fnLog.open => issued = <<"BEGIN">>

\* the callback has written a row, committed and returned: _inTransaction has
\* issued its BEGIN and nothing else, and the row is durable
FinalStateRuleWitness ==
    /\ TxnDone
    /\ fnLog.end = "returned"
    /\ ~fnLog.open
    /\ fnLog.writes # {}
    /\ fnLog.writes \subseteq ClientRows(committed)
    /\ issued = <<"BEGIN">>
    /\ outcome = Returned(fnLog.val)

\* the callback has run INSERTs, and one COMMIT followed at once by one BEGIN,
\* the COMMIT as statement k: it has committed the transaction it was called in
\* and has begun one that it has not ended
CallbackManaged(k) ==
    /\ k \in 1..(Len(fnLog.stmts) - 1)
    /\ fnLog.stmts[k].kind = "COMMIT"
    /\ fnLog.stmts[k + 1].kind = "BEGIN"
    /\ \A j \in 1..Len(fnLog.stmts) : j \notin {k, k + 1} => fnLog.stmts[j].kind = "INSERT"

\* the rows written by the statements from..to of the callback
RowsOfSteps(from, to) == { r \in fnLog.writes : \E j \in from..to : r.key = <<"fn", j>> }

\* C20 (callback-managed transactions): when the callback has committed the
\* transaction of _inTransaction and begun a new one that it does not end,
\* _inTransaction issues COMMIT when the callback returns, and the rows of the
\* new transaction are then durable (unless the engine fails that COMMIT); it
\* issues ROLLBACK when the callback throws, and the rows of the new
\* transaction are gone; in both cases the rows of the transaction that the
\* callback committed are durable and the connection is left outside a
\* transaction.
CallbackManagedTransactions ==
    \A k \in 1..MaxFnSteps :
        (TxnDone /\ CallbackManaged(k)) =>
            /\ RowsOfSteps(1, k - 1) \subseteq ClientRows(committed)
            /\ ~inTransaction
            /\ working = committed
            /\ fnLog.end = "returned" =>
                  /\ issued[2] = "COMMIT"
                  /\ \/ outcome = Returned(fnLog.val)
                        /\ RowsOfSteps(k + 2, Len(fnLog.stmts)) \subseteq ClientRows(committed)
                     \/ outcome = Threw(ErrEngine)
                        /\ RowsOfSteps(k + 2, Len(fnLog.stmts)) \cap ClientRows(committed) = {}
            /\ fnLog.end = "threw" =>
                  /\ issued = <<"BEGIN", "ROLLBACK">>
                  /\ outcome = Threw(fnLog.val)
                  /\ RowsOfSteps(k + 2, Len(fnLog.stmts)) \cap ClientRows(committed) = {}

\* the callback has written a row, committed, begun a transaction, written a
\* second row and thrown: the first row is durable, the second is gone
CallbackManagedTransactionsWitness ==
    /\ TxnDone
    /\ CallbackManaged(2)
    /\ Len(fnLog.stmts) = 4
    /\ fnLog.end = "threw"
    /\ issued = <<"BEGIN", "ROLLBACK">>
    /\ ObjectRow(<<"fn", 1>>) \in ClientRows(committed)
    /\ ObjectRow(<<"fn", 4>>) \in fnLog.writes
    /\ ObjectRow(<<"fn", 4>>) \notin ClientRows(working)

============================================================================
